---- MODULE Spec2Model ----
(***************************************************************************)
(* A model of the csynth LV2 plugin engine (csynth.c, patch.h, uris.h):    *)
(* the voice pool, the event-interleaved render loop of run(), and the     *)
(* patch build / install / dispose protocol between the audio thread and   *)
(* the worker thread; and of the signal-graph primitives of the synth      *)
(* library (lib/envelopes.h) that a patch composes.                        *)
(*                                                                         *)
(* Numeric conventions.  Velocities and control values are the MIDI data   *)
(* byte b standing for the float b / 127.0.  The pitch bend is held in     *)
(* units of 1/BEND_UNIT, pitches in units of 1/BEND_UNIT semitone, and     *)
(* frequencies in milli-Hertz.  Levels of the library's signals are        *)
(* integers in units of 1/LEVEL_UNIT, durations whole numbers of STEP_TIME; *)
(* the inputs are chosen so that every slope (a span divided by a          *)
(* duration) is a whole number of units, as the library's tests choose      *)
(* powers of two "to avoid float artifacts".                               *)
(***************************************************************************)
EXTENDS Integers, Sequences, FiniteSets, TLC

\* ------------------------------------------------------------------------
\* Program constants
\* ------------------------------------------------------------------------
CV_COUNT == 120
MAX_VOICE_COUNT == 64
NULL == 0
MIDI_BEND_CENTER == 8192
MIDI_BEND_SHARP == 8191

\* ------------------------------------------------------------------------
\* Bounds of the model
\* ------------------------------------------------------------------------
\* largest block length handed to run()
MaxBlock == 2
\* most events delivered in one block
MaxEvents == 2
\* most patch units ever allocated by build_patch
MaxUnits == 2
\* most voice allocations (caps voice_allocation_index)
MaxAlloc == 4
\* most messages waiting in the host's worker queues
MaxQueue == 2
\* most steps of an envelope whose inputs and outputs are recorded
MaxSteps == 8
\* most tapIn calls made on a delay line
MaxTaps == 1

\* steps of bend resolution per unit of bend (and per semitone of pitch)
BEND_UNIT == 2
\* output positions observed beyond the end of the largest block
ObsLen == MaxBlock + 2

VARIABLES
  self,          \* the Csynth instance (struct Csynth)
  heap,          \* the Patch objects ever allocated, by pointer value
  workQ,         \* requests scheduled to the worker (schedule_work)
  respQ,         \* responses from the worker to the audio thread (respond)
  pc,            \* position of the audio thread: "idle", "run", "freed"
  sample_count,  \* run(): the block length of the current call
  start_sample,  \* run(): the cursor
  nevents,       \* run(): events consumed so far in this block
  outLog,        \* the writes made to the out port in this block, in order
  ref,           \* per position, the state after the events due at it
  eventsOk,      \* the events so far were ordered, with times in [0, N)
  lastEvent,     \* the last event applied by run()
  lastVoice,     \* the index the last call of allocate_voice returned
  streak,        \* the note-ons received in a row since the pool was silent
  hist,          \* whether a freed Patch was read, or freed again
  env,           \* an envelope object of a patch graph (ADSR or AD)
  envObs,        \* what its step method was given and returned
  trig,          \* a trigger object (RiseTrigger or FallTrigger)
  trigObs,       \* what its step method was given and whether it fired
  gen,           \* a generator object (DC, a noise generator, an oscillator)
  genObs,        \* what its step method returned
  split,         \* a Splitter object with its outputs and its source
  splitObs,      \* what the step methods of its outputs returned
  delay,         \* a Delay object with its source
  delayObs,      \* what its methods were given and returned
  proc,          \* a processor object, or a graph of them
  procObs        \* what its step method returned

\* the state of the engine, and the state of the library's objects
engineVars == <<self, heap, workQ, respQ, pc, sample_count, start_sample,
                nevents, outLog, ref, eventsOk, lastEvent, lastVoice, streak,
                hist>>
envVars == <<env, envObs, trig, trigObs>>
genVars == <<gen, genObs>>
splitVars == <<split, splitObs>>
delayVars == <<delay, delayObs>>
procVars == <<proc, procObs>>
dspVars == <<gen, genObs, split, splitObs, delay, delayObs, proc, procObs>>
libVars == <<env, envObs, trig, trigObs, gen, genObs, split, splitObs,
             delay, delayObs, proc, procObs>>

vars == <<self, heap, workQ, respQ, pc, sample_count, start_sample, nevents,
          outLog, ref, eventsOk, lastEvent, lastVoice, streak, hist,
          env, envObs, trig, trigObs, gen, genObs, split, splitObs,
          delay, delayObs, proc, procObs>>

\* ------------------------------------------------------------------------
\* Helpers
\* ------------------------------------------------------------------------
Voices == 0 .. (MAX_VOICE_COUNT - 1)
Controls == 0 .. (CV_COUNT - 1)

Min(a, b) == IF a < b THEN a ELSE b

\* floor of a / b for b > 0 and any integer a
FloorDiv(a, b) == IF a >= 0 THEN a \div b ELSE -(((-a) + b - 1) \div b)

RECURSIVE Pow2(_)
Pow2(n) == IF n <= 0 THEN 1 ELSE 2 * Pow2(n - 1)

\* 1000 * 2^(k/24), the equal-tempered ratios of the 24 steps of an octave
\* that BEND_UNIT = 2 distinguishes
TemperedRatio ==
  <<1000, 1029, 1059, 1091, 1122, 1155, 1189, 1224, 1260, 1297, 1335, 1374,
    1414, 1456, 1498, 1542, 1587, 1634, 1682, 1731, 1782, 1834, 1888, 1943>>

\* 440.0 * powf(2.0, (note - 69) / 12.0), in mHz; pitch is in 1/BEND_UNIT
\* semitones
note_number_to_frequency(pitch) ==
  LET steps == pitch - 69 * BEND_UNIT
      oct   == FloorDiv(steps, 12 * BEND_UNIT)
      r     == steps - oct * 12 * BEND_UNIT
      base  == 440 * TemperedRatio[r + 1]
  IN  IF oct >= 0 THEN base * Pow2(oct) ELSE base \div Pow2(-oct)

\* the bend of a MIDI bender message, in 1/BEND_UNIT
BendOfMessage(lsb, msb) ==
  LET raw == (lsb + msb * 128) - MIDI_BEND_CENTER
  IN  IF raw >= 0 THEN (raw * BEND_UNIT) \div MIDI_BEND_SHARP
      ELSE -(((-raw) * BEND_UNIT) \div MIDI_BEND_CENTER)

\* ------------------------------------------------------------------------
\* The Csynth instance
\* ------------------------------------------------------------------------
Voice0 == [note |-> 0, frequency |-> 0, velocity |-> 0, allocation_index |-> 0]

\* instantiate(): calloc + memset leave every field zero
Csynth0 ==
  [ patch |-> NULL,
    autobuild |-> 0,
    polyphony |-> 0,
    bendrange |-> 0,
    send_patch_change_to_gui |-> FALSE,
    send_autobuild_change_to_gui |-> FALSE,
    send_polyphony_change_to_gui |-> FALSE,
    send_bendrange_change_to_gui |-> FALSE,
    send_cv_change_to_gui |-> FALSE,
    set_cv_indices |-> [i \in Controls |-> 0],
    set_cv_count |-> 0,
    cv |-> [i \in Controls |-> 0],
    bend |-> 0,
    bend_scaled |-> 0,
    voices |-> [v \in Voices |-> Voice0],
    voice_allocation_index |-> 0 ]

update_bend(s, bend, bendrange) ==
  IF bend # s.bend \/ bendrange # s.bendrange
  THEN LET scaled == bend * bendrange
       IN  [s EXCEPT !.bend = bend,
                     !.bendrange = bendrange,
                     !.bend_scaled = scaled,
                     !.voices = [v \in Voices |->
                        IF s.voices[v].note > 0
                        THEN [s.voices[v] EXCEPT !.frequency =
                                note_number_to_frequency(
                                  s.voices[v].note * BEND_UNIT + scaled)]
                        ELSE s.voices[v]]]
  ELSE s

\* a slip of get_voice_count: the lower clamp is missing
get_voice_count_unfloored(s) ==
  IF s.polyphony > MAX_VOICE_COUNT THEN MAX_VOICE_COUNT ELSE s.polyphony

get_voice_count(s) ==
  IF s.polyphony < 1 THEN 1
  ELSE IF s.polyphony > MAX_VOICE_COUNT THEN MAX_VOICE_COUNT
  ELSE s.polyphony

\* the scan of allocate_voice over voices i .. count-1, carrying the loop's
\* (index, minimum_index)
RECURSIVE AllocScan(_, _, _, _)
RECURSIVE AllocScanLast(_, _, _, _)
\* a slip of the scan: <= for <, so that the last of equal voices wins
AllocScanLast(s, i, index, minimum_index) ==
  IF i >= get_voice_count(s) THEN index
  ELSE IF s.voices[i].velocity > 0
       THEN AllocScanLast(s, i + 1, index, minimum_index)
  ELSE IF minimum_index < 0 \/ s.voices[i].allocation_index <= minimum_index
       THEN AllocScanLast(s, i + 1, i, s.voices[i].allocation_index)
  ELSE AllocScanLast(s, i + 1, index, minimum_index)

AllocScan(s, i, index, minimum_index) ==
  IF i >= get_voice_count(s) THEN index
  ELSE IF s.voices[i].velocity > 0
       THEN AllocScan(s, i + 1, index, minimum_index)
  ELSE IF minimum_index < 0 \/ s.voices[i].allocation_index < minimum_index
       THEN AllocScan(s, i + 1, i, s.voices[i].allocation_index)
  ELSE AllocScan(s, i + 1, index, minimum_index)

\* a slip of allocate_voice: voice 0 whatever is playing
allocate_voice_first(s) == 0

\* the index allocate_voice returns
allocate_voice(s) == AllocScan(s, 0, 0, -1)

\* array[index] = value, on an array held as a function from its indices: a
\* store beyond the array shows as an element outside 0 .. size-1
Store(array, index, value) ==
  IF index \in DOMAIN array THEN [array EXCEPT ![index] = value]
  ELSE (index :> value) @@ array

\* read_set_float_array over a tuple of <<"int", n>> and <<"float", x>>
RECURSIVE ReadTuple(_, _, _, _)
ReadTuple(tuple, k, index, array) ==
  IF k > Len(tuple) THEN array
  ELSE IF tuple[k][1] = "int"
       THEN ReadTuple(tuple, k + 1, tuple[k][2], array)
  ELSE IF index >= 0 /\ index < CV_COUNT
       THEN ReadTuple(tuple, k + 1, index, Store(array, index, tuple[k][2]))
  ELSE ReadTuple(tuple, k + 1, index, array)

read_set_float_array(tuple, array) == ReadTuple(tuple, 1, 0, array)

\* An event of the midi_in sequence:
\*   time  the frame offset ev->time.frames
\*   kind  the MIDI message type, or the property of a patch:Set, or "get"
\*   a, b  the data bytes msg[1], msg[2], or the value of the property
\*   tuple the body of a cv property
Event(t, k, a, b, tp) == [time |-> t, kind |-> k, a |-> a, b |-> b, tuple |-> tp]

\* case LV2_MIDI_MSG_NOTE_ON
NoteOn(s, note, velocity) ==
  LET voice == allocate_voice(s)
  IN  [s EXCEPT !.voice_allocation_index = @ + 1,
                !.voices[voice] =
                   [note |-> note,
                    frequency |-> note_number_to_frequency(
                                    note * BEND_UNIT + s.bend_scaled),
                    velocity |-> velocity,
                    allocation_index |-> s.voice_allocation_index]]

\* a slip of the pressure case: silent voices holding the note are set too
NotePressureAny(s, note, pressure) ==
  [s EXCEPT !.voices = [v \in Voices |->
     IF s.voices[v].note = note /\ pressure > 0
     THEN [s.voices[v] EXCEPT !.velocity = pressure]
     ELSE s.voices[v]]]

\* case LV2_MIDI_MSG_NOTE_PRESSURE
NotePressure(s, note, pressure) ==
  [s EXCEPT !.voices = [v \in Voices |->
     IF s.voices[v].note = note /\ s.voices[v].velocity > 0 /\ pressure > 0
     THEN [s.voices[v] EXCEPT !.velocity = pressure]
     ELSE s.voices[v]]]

\* a slip of the note-off case: every voice is silenced
NoteOffAll(s, note) ==
  [s EXCEPT !.voices = [v \in Voices |-> [s.voices[v] EXCEPT !.velocity = 0]]]

\* case LV2_MIDI_MSG_NOTE_OFF
NoteOff(s, note) ==
  [s EXCEPT !.voices = [v \in Voices |->
     IF s.voices[v].note = note
     THEN [s.voices[v] EXCEPT !.velocity = 0]
     ELSE s.voices[v]]]

\* a slip of the controller case: the index is clamped into the array
\* instead of being tested
ControllerClamped(s, controller, value) ==
  LET slot  == IF controller < CV_COUNT THEN controller ELSE CV_COUNT - 1
      found == \E i \in 0 .. (s.set_cv_count - 1) : s.set_cv_indices[i] = slot
  IN  [s EXCEPT !.cv = Store(@, slot, value),
                !.send_cv_change_to_gui = TRUE,
                !.set_cv_indices =
                   IF found THEN @ ELSE [@ EXCEPT ![s.set_cv_count] = slot],
                !.set_cv_count = IF found THEN @ ELSE @ + 1]

\* a slip of the controller case: the index is appended without the search
ControllerUnsought(s, controller, value) ==
  IF controller >= 0 /\ controller < CV_COUNT
  THEN [s EXCEPT !.cv = Store(@, controller, value),
                 !.send_cv_change_to_gui = TRUE,
                 !.set_cv_indices = Store(@, s.set_cv_count, controller),
                 !.set_cv_count = @ + 1]
  ELSE s

\* case LV2_MIDI_MSG_CONTROLLER
Controller(s, controller, value) ==
  IF controller >= 0 /\ controller < CV_COUNT
  THEN LET found == \E i \in 0 .. (s.set_cv_count - 1) :
                       s.set_cv_indices[i] = controller
       IN  [s EXCEPT !.cv = Store(@, controller, value),
                     !.send_cv_change_to_gui = TRUE,
                     !.set_cv_indices =
                        IF found THEN @
                        ELSE [@ EXCEPT ![s.set_cv_count] = controller],
                     !.set_cv_count = IF found THEN @ ELSE @ + 1]
  ELSE s

receive_midi_event(s, ev) ==
  CASE ev.kind = "note_on" -> NoteOn(s, ev.a, ev.b)
    [] ev.kind = "pressure" -> NotePressure(s, ev.a, ev.b)
    [] ev.kind = "note_off" -> NoteOff(s, ev.a)
    [] ev.kind = "bender" ->
         update_bend(s, BendOfMessage(ev.a, ev.b), s.bendrange)
    [] ev.kind = "controller" -> Controller(s, ev.a, ev.b)
    [] OTHER -> s

MidiKinds == {"note_on", "pressure", "note_off", "bender", "controller", "other"}

\* the effect of receive_atom_object on the instance (scheduling apart)
receive_atom_object(s, ev) ==
  CASE ev.kind = "cv" -> [s EXCEPT !.cv = read_set_float_array(ev.tuple, @)]
    [] ev.kind = "autobuild" -> [s EXCEPT !.autobuild = ev.a]
    [] ev.kind = "polyphony" -> [s EXCEPT !.polyphony = ev.a]
    [] ev.kind = "bendrange" -> update_bend(s, s.bend, ev.a)
    [] ev.kind = "get" ->
         [s EXCEPT !.send_patch_change_to_gui = TRUE,
                   !.send_autobuild_change_to_gui = TRUE,
                   !.send_polyphony_change_to_gui = TRUE,
                   !.send_bendrange_change_to_gui = TRUE,
                   !.set_cv_indices = [i \in Controls |-> i],
                   !.set_cv_count = CV_COUNT,
                   !.send_cv_change_to_gui = TRUE]
    [] OTHER -> s

\* the body of the event loop of run() after write_samples
ApplyEvent(s, ev) ==
  IF ev.kind \in MidiKinds THEN receive_midi_event(s, ev)
  ELSE receive_atom_object(s, ev)

\* ------------------------------------------------------------------------
\* Patch units (patch.h)
\* ------------------------------------------------------------------------
\* A Patch object.  Beside the fields of the struct it records its history:
\* freed, that dispose_patch has released it; built_in, loaded_in,
\* disposed_in and installed_in, the context ("rt" for the audio thread,
\* "worker", or "state" for restore and cleanup) in which build_patch,
\* load_patch and dispose_patch were run on it and in which it became
\* self->patch ("none" while that has not happened).
Patch(path, built, lib, loaded) ==
  [code_path |-> path, built |-> built, lib |-> lib, loaded |-> loaded,
   freed |-> FALSE, built_in |-> "none", loaded_in |-> "none",
   disposed_in |-> "none", installed_in |-> "none"]

\* build_patch: the objects it can return (the library was produced or not);
\* a failed malloc returns NULL instead and is the outcome "null" of get_patch
build_patch(path) == { Patch(path, b, FALSE, FALSE) : b \in BOOLEAN }

\* load_patch: dlopen fails, or dlsym fails, or the step function is found
load_patch(p) ==
  IF p.loaded THEN {p}
  ELSE { p,
         [p EXCEPT !.lib = TRUE],
         [p EXCEPT !.lib = TRUE, !.loaded = TRUE] }

\* dispose_patch on an allocated object
dispose_patch(p) == [p EXCEPT !.freed = TRUE]

\* the object after dispose_patch was run on it in context ctx
Disposed(p, ctx) == [dispose_patch(p) EXCEPT !.disposed_in = ctx]

\* get_patch: the set of outcomes [alloc, p, ret]: whether a Patch object was
\* allocated, the object as get_patch leaves it, and whether its pointer
\* (rather than NULL) is returned
get_patch(path, dispose_invalid) ==
  {[alloc |-> FALSE, p |-> Patch(path, FALSE, FALSE, FALSE), ret |-> FALSE]}
  \cup
  UNION { IF ~ b.built
          THEN {[alloc |-> TRUE, p |-> b, ret |-> TRUE]}
          ELSE { IF (~ l.loaded) /\ dispose_invalid
                 THEN [alloc |-> TRUE, p |-> dispose_patch(l), ret |-> FALSE]
                 ELSE [alloc |-> TRUE, p |-> l, ret |-> TRUE]
                 : l \in load_patch(b) }
        : b \in build_patch(path) }

\* the object get_patch leaves, with the context of what was done to it
Made(p, ctx) ==
  [p EXCEPT !.built_in = ctx,
            !.loaded_in = IF p.built THEN ctx ELSE @,
            !.disposed_in = IF p.freed THEN ctx ELSE @]

\* uaf: a freed Patch object was read; dfree: one was disposed twice
Hist0 == [uaf |-> FALSE, dfree |-> FALSE]

\* messages to the worker
SetMsg(path) == [type |-> "patch_Set", path |-> path, patch |-> NULL]
DisposeMsg(patch) == [type |-> "disposeLib", path |-> 0, patch |-> patch]

\* ------------------------------------------------------------------------
\* Audio processing
\* ------------------------------------------------------------------------
\* One output sample, as the sum the inner loop of write_samples forms: the
\* unit whose step function is called and, for v = 0 .. voice_count-1 in
\* order, the arguments of the call; the memset writes Silence (0.0).
Silence == [unit |-> NULL, calls |-> <<>>, cv |-> <<>>]

Synth(s) ==
  [unit |-> s.patch,
   calls |-> [k \in 1 .. get_voice_count(s) |->
                <<k - 1, s.voices[k - 1].frequency, s.voices[k - 1].velocity>>],
   cv |-> [k \in 1 .. CV_COUNT |-> s.cv[k - 1]]]

\* a slip of write_samples: the loaded flag is not looked at
SampleOfAnyPatch(s, loaded) == IF s.patch = NULL THEN Silence ELSE Synth(s)

\* the sample write_samples produces when it finds the patch (not) loaded
SampleOf(s, loaded) == IF s.patch = NULL \/ ~ loaded THEN Silence ELSE Synth(s)

\* (end - start) in uint32_t: when end < start the difference wraps to
\* 2^32 - (start - end), more than any positions the model observes; it is
\* held as the largest number the checker has
WrappedDifference(start, end) ==
  IF end >= start THEN end - start ELSE 2147483647

\* a slip of the loop of write_samples: i <= end for i < end
WriteCountInclusive(s, loaded, start, end) ==
  IF s.patch = NULL \/ ~ loaded THEN WrappedDifference(start, end)
  ELSE IF end >= start THEN end - start + 1 ELSE 0

\* the number of floats write_samples writes from position start on:
\* the memset takes (end - start) in uint32_t, the loop runs while i < end
WriteCount(s, loaded, start, end) ==
  IF s.patch = NULL \/ ~ loaded THEN WrappedDifference(start, end)
  ELSE IF end > start THEN end - start ELSE 0

\* write_samples: the writes to the out port, in order, as seen through the
\* first ObsLen positions
write_samples(s, loaded, start, end) ==
  LET n == Min(WriteCount(s, loaded, start, end),
               IF start < ObsLen THEN ObsLen - start ELSE 0)
  IN  [k \in 1 .. n |-> [pos |-> start + k - 1, sample |-> SampleOf(s, loaded)]]

\* what write_samples can read as patch->loaded: the field, or anything at
\* all once the object has been freed
LoadedSeen(s, hp) ==
  IF s.patch = NULL THEN {FALSE}
  ELSE IF hp[s.patch].freed THEN BOOLEAN
  ELSE {hp[s.patch].loaded}

UseAfterFree(s, hp) == s.patch # NULL /\ hp[s.patch].freed

\* the notification part of run(): flags are cleared, the list of changed
\* controls is emptied
Notify(s) ==
  [s EXCEPT !.send_patch_change_to_gui = FALSE,
            !.send_autobuild_change_to_gui = FALSE,
            !.send_polyphony_change_to_gui = FALSE,
            !.send_bendrange_change_to_gui = FALSE,
            !.send_cv_change_to_gui = FALSE,
            !.set_cv_count = IF s.send_cv_change_to_gui THEN 0 ELSE @]

NoEvent == Event(0, "none", 0, 0, <<>>)

\* a slip of run(): the event takes effect one sample late
event_sample_late(ev, n) == ev.time + 1

\* run(): uint32_t event_sample = ev->time.frames, and the comparison with
\* sample_count that assigns event_sample to itself
event_sample(ev, n) == IF ev.time > n THEN ev.time ELSE ev.time

\* whether every voice of the pool is silent
AllSilent(s) == \A v \in Voices : s.voices[v].velocity = 0

\* the note-ons in a row since the pool was silent, each with the voice it
\* was given; any other event ends the row
NextStreak(s, st, ev) ==
  IF ev.kind # "note_on" THEN <<>>
  ELSE IF st = <<>> /\ ~ AllSilent(s) THEN <<>>
  ELSE Append(st, [note |-> ev.a, velocity |-> ev.b, voice |-> allocate_voice(s)])

\* build requests not yet served, and whether one more unit may be requested
PendingBuilds(q) == Len(SelectSeq(q, LAMBDA m : m.type = "patch_Set"))
CanRequest == Len(heap) + PendingBuilds(workQ) < MaxUnits

\* run(), entry: the notifications, then the event loop starts at sample 0
RunBegin(n) ==
  /\ pc = "idle"
  /\ pc' = "run"
  /\ sample_count' = n
  /\ start_sample' = 0
  /\ nevents' = 0
  /\ self' = Notify(self)
  /\ outLog' = <<>>
  /\ ref' = [p \in 0 .. (n - 1) |-> Notify(self)]
  /\ eventsOk' = TRUE
  /\ lastEvent' = NoEvent
  /\ UNCHANGED <<heap, workQ, respQ, hist, lastVoice, streak>>
  /\ UNCHANGED libVars

\* run(), one iteration of LV2_ATOM_SEQUENCE_FOREACH
RunEvent(ev) ==
  /\ pc = "run"
  /\ ev.kind = "note_on" => self.voice_allocation_index < MaxAlloc
  /\ ev.kind = "codepath" => CanRequest /\ Len(workQ) < MaxQueue
  /\ \E loaded \in LoadedSeen(self, heap) :
        outLog' = outLog \o write_samples(self, loaded, start_sample,
                                          event_sample(ev, sample_count))
  /\ hist' = [hist EXCEPT !.uaf = @ \/ UseAfterFree(self, heap)]
  /\ start_sample' = event_sample(ev, sample_count)
  /\ self' = ApplyEvent(self, ev)
  /\ workQ' = IF ev.kind = "codepath" THEN Append(workQ, SetMsg(ev.a)) ELSE workQ
  /\ nevents' = nevents + 1
  /\ ref' = [p \in DOMAIN ref |->
               IF ev.time <= p THEN ApplyEvent(ref[p], ev) ELSE ref[p]]
  /\ eventsOk' = (eventsOk /\ start_sample <= ev.time /\ ev.time < sample_count)
  /\ lastEvent' = ev
  /\ lastVoice' = IF ev.kind = "note_on" THEN allocate_voice(self) ELSE lastVoice
  /\ streak' = NextStreak(self, streak, ev)
  /\ UNCHANGED <<heap, respQ, pc, sample_count>>
  /\ UNCHANGED libVars

\* run(), after the loop: "write any unwritten samples"
RunEnd ==
  /\ pc = "run"
  /\ \E loaded \in LoadedSeen(self, heap) :
        outLog' = outLog \o write_samples(self, loaded, start_sample, sample_count)
  /\ hist' = [hist EXCEPT !.uaf = @ \/ UseAfterFree(self, heap)]
  /\ pc' = "idle"
  /\ UNCHANGED <<self, heap, workQ, respQ, sample_count, start_sample, nevents,
                 ref, eventsOk, lastEvent, lastVoice, streak>>
  /\ UNCHANGED libVars

\* ------------------------------------------------------------------------
\* Worker
\* ------------------------------------------------------------------------
\* work(), called by the host in the worker thread with the oldest request
work ==
  /\ pc # "freed"
  /\ workQ # <<>>
  /\ LET msg == Head(workQ)
     IN  IF msg.type = "disposeLib"
         THEN /\ heap' = [heap EXCEPT ![msg.patch] = Disposed(@, "worker")]
              /\ hist' = [hist EXCEPT !.dfree = @ \/ heap[msg.patch].freed]
              /\ respQ' = respQ
         ELSE \E o \in get_patch(msg.path, TRUE) :
                /\ heap' = IF o.alloc THEN Append(heap, Made(o.p, "worker"))
                           ELSE heap
                /\ hist' = hist
                /\ respQ' = IF o.ret THEN Append(respQ, Len(heap) + 1) ELSE respQ
  /\ workQ' = Tail(workQ)
  /\ UNCHANGED <<self, pc, sample_count, start_sample, nevents, outLog, ref,
                 eventsOk, lastEvent, lastVoice, streak>>
  /\ UNCHANGED libVars

\* a slip of work_response: the old patch is disposed on the spot
RetireOldInPlace(s, hp, q) ==
  [heap |-> IF s.patch # NULL THEN [hp EXCEPT ![s.patch] = Disposed(@, "rt")]
            ELSE hp,
   workQ |-> q]

\* a slip of work_response: no message is sent for the old patch
RetireOldUnsent(s, hp, q) == [heap |-> hp, workQ |-> q]

\* work_response, first half: "send a message to dispose the existing patch"
RetireOld(s, hp, q) ==
  [heap |-> hp,
   workQ |-> IF s.patch # NULL THEN Append(q, DisposeMsg(s.patch)) ELSE q]

\* a slip of work_response: the new patch is never stored
InstallPatchLost(s, data) == s

\* work_response, second half: "install the new patch"
InstallPatch(s, data) == [s EXCEPT !.patch = data]

\* work_response(), called by the host in the audio thread between two calls
\* of run()
work_response ==
  /\ pc = "idle"
  /\ respQ # <<>>
  /\ self.patch # NULL => Len(workQ) < MaxQueue
  /\ LET data == Head(respQ)
         old  == RetireOld(self, heap, workQ)
     IN  /\ workQ' = old.workQ
         /\ self' = InstallPatch(self, data)
         /\ heap' = [old.heap EXCEPT ![data].installed_in = "rt"]
  /\ respQ' = Tail(respQ)
  /\ UNCHANGED <<hist, pc, sample_count, start_sample, nevents, outLog, ref,
                 eventsOk, lastEvent, lastVoice, streak>>
  /\ UNCHANGED libVars

\* ------------------------------------------------------------------------
\* State and lifecycle
\* ------------------------------------------------------------------------
\* the part of restore() after the code path: st.has names the properties
\* the host's retrieve function finds
RestoreSettings(s, st) ==
  LET s1 == IF "autobuild" \in st.has
            THEN [s EXCEPT !.autobuild = st.autobuild,
                           !.send_autobuild_change_to_gui = TRUE]
            ELSE s
      s2 == IF "polyphony" \in st.has
            THEN [s1 EXCEPT !.polyphony = st.polyphony,
                            !.send_polyphony_change_to_gui = TRUE]
            ELSE s1
      s3 == IF "bendrange" \in st.has
            THEN [update_bend(s2, s2.bend, st.bendrange)
                    EXCEPT !.send_bendrange_change_to_gui = TRUE]
            ELSE s2
  IN  IF "cv" \in st.has
      THEN [s3 EXCEPT !.cv = read_set_float_array(st.cv, @),
                      !.set_cv_indices = [i \in Controls |-> i],
                      !.set_cv_count = CV_COUNT,
                      !.send_cv_change_to_gui = TRUE]
      ELSE s3

\* the outcomes get_patch can have in restore(): none when no code path is
\* retrieved
RestoreOutcomes(st) ==
  IF "codepath" \in st.has THEN get_patch(st.codepath, FALSE)
  ELSE {[alloc |-> FALSE, p |-> Patch(0, FALSE, FALSE, FALSE), ret |-> FALSE]}

\* restore() on instance s and heap hp, for outcome o of get_patch: the
\* instance and the heap it leaves, and whether it disposed a freed object
RestoreResult(s, hp, st, o) ==
  LET hp1 == IF o.alloc THEN Append(hp, Made(o.p, "state")) ELSE hp
      new == Len(hp) + 1
  IN  IF o.ret
      THEN [self |-> RestoreSettings(
                       [s EXCEPT !.patch = new,
                                 !.send_patch_change_to_gui = TRUE], st),
            heap |-> [k \in DOMAIN hp1 |->
                        IF k = s.patch THEN Disposed(hp1[k], "state")
                        ELSE IF k = new
                             THEN [hp1[k] EXCEPT !.installed_in = "state"]
                        ELSE hp1[k]],
            dfree |-> s.patch # NULL /\ hp[s.patch].freed]
      ELSE [self |-> RestoreSettings(s, st), heap |-> hp1, dfree |-> FALSE]

\* restore(), called by the host outside run()
restore(st) ==
  /\ pc = "idle"
  /\ "codepath" \in st.has => Len(heap) + PendingBuilds(workQ) < MaxUnits
  /\ \E o \in RestoreOutcomes(st) :
       LET r == RestoreResult(self, heap, st, o)
       IN  /\ self' = r.self
           /\ heap' = r.heap
           /\ hist' = [hist EXCEPT !.dfree = @ \/ r.dfree]
  /\ streak' = <<>>
  /\ UNCHANGED <<workQ, respQ, pc, sample_count, start_sample, nevents, outLog,
                 ref, eventsOk, lastEvent, lastVoice>>
  /\ UNCHANGED libVars

\* cleanup(): the installed patch is disposed and the instance freed
cleanup ==
  /\ pc = "idle"
  /\ pc' = "freed"
  /\ IF self.patch # NULL
     THEN /\ heap' = [heap EXCEPT ![self.patch] = Disposed(@, "state")]
          /\ hist' = [hist EXCEPT !.dfree = @ \/ heap[self.patch].freed]
     ELSE UNCHANGED <<heap, hist>>
  /\ UNCHANGED <<self, workQ, respQ, sample_count, start_sample, nevents,
                 outLog, ref, eventsOk, lastEvent, lastVoice, streak>>
  /\ UNCHANGED libVars

\* ------------------------------------------------------------------------
\* Synth library: triggers and envelopes (lib/envelopes.h)
\* ------------------------------------------------------------------------
\* levels are held in units of 1/LEVEL_UNIT
LEVEL_UNIT == 8

\* typedef enum EnvelopePhase
InitialPhase == 0
AttackPhase == 1
DecayPhase == 2
SustainPhase == 3
ReleasePhase == 4

\* A Trigger object: Trigger() sets threshold = 0.0; the member last of
\* RiseTrigger and FallTrigger is set by no constructor and holds whatever
\* the object's storage held
Trigger(last) == [threshold |-> 0, last |-> last]

\* a slip of RiseTrigger::step: >= for >, an input at the threshold fires
RiseTriggerStepInclusive(t, v) ==
  [trigger |-> [t EXCEPT !.last = v],
   fired |-> (t.last <= t.threshold) /\ (v >= t.threshold)]

\* RiseTrigger::step: the trigger it leaves and whether action(v) was called
RiseTriggerStep(t, v) ==
  [trigger |-> [t EXCEPT !.last = v],
   fired |-> (t.last <= t.threshold) /\ (v > t.threshold)]

\* FallTrigger::step
FallTriggerStep(t, v) ==
  [trigger |-> [t EXCEPT !.last = v],
   fired |-> (t.last > t.threshold) /\ (v <= t.threshold)]

\* Envelope(): the fields of an envelope after the base constructors; kind
\* is the class of the object, "ADSR" or "AD" (an AD has no releaseTrigger:
\* the field is carried and never stepped)
Envelope(kind, attackLast, releaseLast) ==
  [kind |-> kind,
   phase |-> InitialPhase,
   value |-> 0,
   attack |-> 0,
   decay |-> 0,
   sustain |-> LEVEL_UNIT,
   release |-> 0,
   minValue |-> 0,
   maxValue |-> LEVEL_UNIT,
   attackTrigger |-> Trigger(attackLast),
   releaseTrigger |-> Trigger(releaseLast)]

\* ADSR(a, d, s, r) and AD(a, d): durations in step times
WithTimes(e, a, d, s, r) ==
  [e EXCEPT !.attack = a, !.decay = d, !.sustain = s, !.release = r]

\* Generator::setRange
setRange(e, vmin, vmax) == [e EXCEPT !.minValue = vmin, !.maxValue = vmax]

\* (STEP_TIME / duration) * span, for a duration > 0 in step times
Slope(duration, span) == span \div duration

\* "attack phase" of ADSR::step and AD::step
AttackBlock(e) ==
  IF e.phase # AttackPhase THEN e
  ELSE LET value == IF e.attack <= 0 THEN e.maxValue ELSE e.value
       IN  IF value < e.maxValue
           THEN [e EXCEPT !.value =
                   value + Slope(e.attack, e.maxValue - e.minValue)]
           ELSE [e EXCEPT !.value = value, !.phase = DecayPhase]

\* a slip of the decay of ADSR::step: the slope of the whole range
DecayBlockFullRange(e) ==
  IF e.phase # DecayPhase THEN e
  ELSE LET value == IF e.decay <= 0 THEN e.sustain ELSE e.value
       IN  IF value > e.sustain
           THEN [e EXCEPT !.value =
                   value - Slope(e.decay, e.maxValue - e.minValue)]
           ELSE [e EXCEPT !.value = value, !.phase = SustainPhase]

\* "decay" of ADSR::step
DecayBlock(e) ==
  IF e.phase # DecayPhase THEN e
  ELSE LET value == IF e.decay <= 0 THEN e.sustain ELSE e.value
       IN  IF value > e.sustain
           THEN [e EXCEPT !.value =
                   value - Slope(e.decay, e.maxValue - e.sustain)]
           ELSE [e EXCEPT !.value = value, !.phase = SustainPhase]

\* "sustain" of ADSR::step
SustainBlock(e) ==
  IF e.phase = SustainPhase THEN [e EXCEPT !.value = e.sustain] ELSE e

\* "release" of ADSR::step
ReleaseBlock(e) ==
  IF e.phase # ReleasePhase THEN e
  ELSE LET value == IF e.release <= 0 THEN e.minValue ELSE e.value
       IN  IF value > e.minValue
           THEN [e EXCEPT !.value =
                   value - Slope(e.release, e.sustain - e.minValue)]
           ELSE [e EXCEPT !.value = value, !.phase = InitialPhase]

\* "decay" of AD::step
DecayBlockAD(e) ==
  IF e.phase # DecayPhase THEN e
  ELSE LET value == IF e.decay <= 0 THEN e.minValue ELSE e.value
       IN  IF value > e.minValue
           THEN [e EXCEPT !.value =
                   value - Slope(e.decay, e.maxValue - e.minValue)]
           ELSE [e EXCEPT !.value = value, !.phase = InitialPhase]

\* a slip of "clamp value": the upper clamp is missing
ClampValueBelow(e) ==
  IF e.value < e.minValue THEN [e EXCEPT !.value = e.minValue] ELSE e

\* "clamp value" of ADSR::step and AD::step
ClampValue(e) ==
  IF e.value < e.minValue THEN [e EXCEPT !.value = e.minValue]
  ELSE IF e.value > e.maxValue THEN [e EXCEPT !.value = e.maxValue]
  ELSE e

\* ADSR::step(v): the envelope it leaves, the value it returns, and which
\* trigger actions it called
ADSRStep(e, v) ==
  LET a  == RiseTriggerStep(e.attackTrigger, v)
      e1 == [e EXCEPT !.attackTrigger = a.trigger,
                      !.phase = IF a.fired THEN AttackPhase ELSE @]
      r  == FallTriggerStep(e1.releaseTrigger, v)
      e2 == [e1 EXCEPT !.releaseTrigger = r.trigger,
                       !.phase = IF r.fired THEN ReleasePhase ELSE @]
      e3 == ClampValue(ReleaseBlock(SustainBlock(DecayBlock(AttackBlock(e2)))))
  IN  IF e2.phase < AttackPhase \/ e2.phase > ReleasePhase
      THEN [env |-> e2, out |-> e2.minValue,
            attacked |-> a.fired, released |-> r.fired]
      ELSE [env |-> e3, out |-> e3.value,
            attacked |-> a.fired, released |-> r.fired]

\* AD::step(v)
ADStep(e, v) ==
  LET a  == RiseTriggerStep(e.attackTrigger, v)
      e1 == [e EXCEPT !.attackTrigger = a.trigger,
                      !.phase = IF a.fired THEN AttackPhase ELSE @]
      e2 == ClampValue(DecayBlockAD(AttackBlock(e1)))
  IN  IF e1.phase < AttackPhase \/ e1.phase > DecayPhase
      THEN [env |-> e1, out |-> e1.minValue,
            attacked |-> a.fired, released |-> FALSE]
      ELSE [env |-> e2, out |-> e2.value,
            attacked |-> a.fired, released |-> FALSE]

\* the virtual call env.step(v)
EnvelopeStep(e, v) == IF e.kind = "ADSR" THEN ADSRStep(e, v) ELSE ADStep(e, v)

\* what is known of the calls of env.step: whether there was one, the last
\* argument and result, the trigger actions the last call ran, the parity
\* of the number of calls, and the arguments, results and phases of the
\* recorded calls
EnvObs0 ==
  [stepped |-> FALSE, in |-> 0, out |-> 0, attacked |-> FALSE,
   released |-> FALSE, parity |-> 0, log |-> <<>>]

\* env.step(v); the call is recorded when logging
StepEnvelope(v, logging) ==
  /\ logging => Len(envObs.log) < MaxSteps
  /\ LET r == EnvelopeStep(env, v)
     IN  /\ env' = r.env
         /\ envObs' =
              [stepped |-> TRUE, in |-> v, out |-> r.out,
               attacked |-> r.attacked, released |-> r.released,
               parity |-> 1 - envObs.parity,
               log |-> IF logging
                       THEN Append(envObs.log,
                              [in |-> v, out |-> r.out, phase |-> r.env.phase])
                       ELSE envObs.log]
  /\ UNCHANGED <<trig, trigObs>>
  /\ UNCHANGED <<engineVars, dspVars>>

\* an assignment to one of the public members attack, decay, sustain, release
SetEnvelope(field, x) ==
  /\ env' = [env EXCEPT ![field] = x]
  /\ UNCHANGED <<envObs, trig, trigObs>>
  /\ UNCHANGED <<engineVars, dspVars>>

\* env.setRange(vmin, vmax)
SetEnvelopeRange(vmin, vmax) ==
  /\ env' = setRange(env, vmin, vmax)
  /\ UNCHANGED <<envObs, trig, trigObs>>
  /\ UNCHANGED <<engineVars, dspVars>>

\* what is known of the calls of t.step: whether there was one, the last
\* argument, whether the last call ran the action, and the argument the
\* action was last given
TrigObs0 == [stepped |-> FALSE, in |-> 0, fired |-> FALSE, arg |-> 0]

\* t.step(v) on a RiseTrigger or a FallTrigger
StepTrigger(v) ==
  /\ LET r == IF trig.kind = "Rise" THEN RiseTriggerStep(trig, v)
              ELSE FallTriggerStep(trig, v)
     IN  /\ trig' = r.trigger
         /\ trigObs' =
              [stepped |-> TRUE, in |-> v, fired |-> r.fired,
               arg |-> IF r.fired THEN v ELSE trigObs.arg]
  /\ UNCHANGED <<env, envObs>>
  /\ UNCHANGED <<engineVars, dspVars>>

\* t.threshold = x
SetThreshold(x) ==
  /\ trig' = [trig EXCEPT !.threshold = x]
  /\ UNCHANGED <<trigObs, env, envObs>>
  /\ UNCHANGED <<engineVars, dspVars>>

\* ------------------------------------------------------------------------
\* Synth library: generators and oscillators (lib/generators.h,
\* oscillators.h)
\* ------------------------------------------------------------------------
\* Phases are in units of 1/PHASE_UNIT of a period, and a frequency f is
\* the number of phase units one step adds (STEP_TIME * frequency); values
\* are in units of 1/VALUE_UNIT.
PHASE_UNIT == 8
VALUE_UNIT == 2000
\* partial amplitudes are in units of 1/AMP_UNIT
AMP_UNIT == 2
PINK_NOISE_OCTAVE_COUNT == 30

\* a / b rounded toward zero, for b > 0
Quot(a, b) == IF a >= 0 THEN a \div b ELSE -((-a) \div b)

\* sin(phase * TAU) for a phase of n eighths of a period
SinTable == <<0, 1414, 2000, 1414, 0, -1414, -2000, -1414>>
Sin8(n) == SinTable[(n % PHASE_UNIT) + 1]

\* minValue + (((value + 1.0) / 2.0) * (maxValue - minValue))
Scale(g, value) ==
  g.minValue
    + FloorDiv((value + VALUE_UNIT) * (g.maxValue - g.minValue), 2 * VALUE_UNIT)

\* the partials new Additive(2) makes: partials[i].multiple = i,
\* amplitude = 1 / i, phase = 0.0
Partials0 ==
  << [multiple |-> 1, amplitude |-> AMP_UNIT, phase |-> 0],
     [multiple |-> 2, amplitude |-> AMP_UNIT \div 2, phase |-> 0] >>

\* A generator object after its constructors.  Generator() sets the range
\* [-1, 1]; Oscillator() frequency 0 and phase 0; Pulse() width 0.5;
\* Interpolated() value 0; Additive(2) its two partials and a null wave
\* table, and leaves _waveTableFrequency (wtf) and _waveTableSamples (wts)
\* unset; PinkNoise() draws its octaves (oct) and sums them; BrownNoise()
\* starts its sum at maxSum / 2 = 8.  The members a class does not have
\* keep the values given here.
Generator(kind, oct, wtf, wts) ==
  [kind |-> kind, minValue |-> -VALUE_UNIT, maxValue |-> VALUE_UNIT,
   frequency |-> 0, phase |-> 0, width |-> PHASE_UNIT \div 2,
   p |-> <<>>, pcount |-> 0, value |-> 0,
   partials |-> IF kind = "Additive" THEN Partials0 ELSE <<>>,
   waveTable |-> <<>>, waveTableFrequency |-> wtf, waveTableSamples |-> wts,
   waveTableMinValue |-> 0, waveTableMaxValue |-> 0,
   octaves |-> IF kind = "PinkNoise"
               THEN [i \in 0 .. (PINK_NOISE_OCTAVE_COUNT - 1) |-> oct]
               ELSE <<>>,
   sum |-> IF kind = "PinkNoise" THEN PINK_NOISE_OCTAVE_COUNT * oct
           ELSE IF kind = "BrownNoise" THEN 8 * VALUE_UNIT ELSE 0,
   counter |-> 0]

OscillatorKinds ==
  {"Sine", "Pulse", "Saw", "Triangle", "Interpolated", "Additive"}
NoiseKinds == {"WhiteNoise", "PinkNoise", "BrownNoise"}

\* Interpolated::shape: the points given; pcount is the index of the first
\* point whose phase is outside [0, 1]
RECURSIVE CountPoints(_, _)
CountPoints(ps, i) ==
  IF i > Len(ps) THEN Len(ps)
  ELSE IF ps[i].phase < 0 \/ ps[i].phase > PHASE_UNIT THEN i - 1
  ELSE CountPoints(ps, i + 1)

shape(g, ps) == [g EXCEPT !.p = ps, !.pcount = CountPoints(ps, 1)]

\* Oscillator::step(): the phase it leaves
OscillatorStepNoWrap(g) ==
  [g EXCEPT !.phase = g.phase + g.frequency]

OscillatorStep(g) ==
  LET ph == g.phase + g.frequency
  IN  [g EXCEPT !.phase = IF ph >= PHASE_UNIT THEN ph % PHASE_UNIT ELSE ph]

\* Sine::step
SineValue(g) ==
  LET value == Sin8(g.phase)
  IN  IF g.minValue # -VALUE_UNIT \/ g.maxValue # VALUE_UNIT
      THEN Scale(g, value) ELSE value

\* Pulse::step
PulseValue(g) == IF g.phase < g.width THEN g.maxValue ELSE g.minValue

\* Saw::step
SawValue(g) ==
  g.minValue + FloorDiv(g.phase * (g.maxValue - g.minValue), PHASE_UNIT)

\* Triangle::step: p, in units of 1/PHASE_UNIT
TrianglePosition(phase) ==
  IF 4 * phase < PHASE_UNIT THEN (PHASE_UNIT \div 2) + 2 * phase
  ELSE IF 4 * phase < 3 * PHASE_UNIT
       THEN PHASE_UNIT - 2 * (phase - (PHASE_UNIT \div 4))
  ELSE 2 * (phase - ((3 * PHASE_UNIT) \div 4))

TriangleValue(g) ==
  g.minValue
    + FloorDiv(TrianglePosition(g.phase) * (g.maxValue - g.minValue),
               PHASE_UNIT)

\* Interpolated::step: the member value after the loop over the points and
\* the interpolation toward the target
InterpolatedValue(g) ==
  LET phaseStep == g.frequency
      Ahead == { i \in 1 .. g.pcount : g.phase < g.p[i].phase }
      b == IF Ahead = {} THEN g.pcount + 1
           ELSE CHOOSE i \in Ahead : \A j \in Ahead : i <= j
      Jumped == { i \in 1 .. (b - 1) :
                    /\ g.phase >= g.p[i].phase
                    /\ g.phase - phaseStep < g.p[i].phase }
      v0 == IF Jumped = {} THEN g.value
            ELSE g.p[CHOOSE i \in Jumped : \A j \in Jumped : i >= j].value
      target == IF b <= g.pcount THEN g.p[b] ELSE g.p[1]
      d0 == target.phase - g.phase
      deltaPhase == IF d0 < 0 THEN d0 + PHASE_UNIT ELSE d0
  IN  IF phaseStep > deltaPhase THEN target.value
      ELSE IF deltaPhase # 0
           THEN v0 + Quot(phaseStep * (target.value - v0), deltaPhase)
      ELSE v0

\* the wave table _updateWaveTable fills for frequency f and the range of
\* g: _waveTablePeriod = PHASE_UNIT / f samples of one sine period
WaveTable(g, f) ==
  [i \in 1 .. (PHASE_UNIT \div f) |-> Scale(g, Sin8((i - 1) * f))]

\* Additive::_updateWaveTable: the oscillator it leaves; a table that is
\* still null afterwards is written and read through the null pointer
updateWaveTable(g) ==
  LET frequencyChanged == g.frequency # g.waveTableFrequency
      rangeChanged == \/ g.minValue # g.waveTableMinValue
                      \/ g.maxValue # g.waveTableMaxValue
      samples == PHASE_UNIT \div g.frequency
      allocated == frequencyChanged /\ samples # g.waveTableSamples
      g1 == IF frequencyChanged
            THEN [g EXCEPT !.waveTableFrequency = g.frequency,
                           !.waveTableSamples = samples]
            ELSE g
      present == allocated \/ g.waveTable # <<>>
  IN  IF ~present THEN [g1 EXCEPT !.waveTable = <<>>]
      ELSE IF frequencyChanged \/ rangeChanged
      THEN [g1 EXCEPT !.waveTable = WaveTable(g, g.frequency),
                      !.waveTableMinValue = g.minValue,
                      !.waveTableMaxValue = g.maxValue]
      ELSE g1

\* the contribution of one partial to a sample of Additive::step
PartialValue(g, partial) ==
  LET f == g.frequency
      n == g.waveTableSamples
      sampleIndex == (partial.phase \div f) % n
      mix == partial.phase - f * sampleIndex
      curr == g.waveTable[sampleIndex + 1]
      next == g.waveTable[((sampleIndex + 1) % n) + 1]
  IN  Quot(partial.amplitude * (curr * (f - mix) + next * mix), AMP_UNIT * f)

RECURSIVE SumPartials(_, _)
SumPartials(g, i) ==
  IF i > Len(g.partials) THEN 0
  ELSE PartialValue(g, g.partials[i]) + SumPartials(g, i + 1)

\* the partials after one sample: each phase advanced by phaseStep * multiple
AdvancePartials(g) ==
  [i \in 1 .. Len(g.partials) |->
     [g.partials[i] EXCEPT
        !.phase = (g.partials[i].phase + g.frequency * g.partials[i].multiple)
                    % PHASE_UNIT]]

\* the index of the octave PinkNoise::step replaces: the number of trailing
\* zeros of the counter
RECURSIVE TrailingZeros(_)
TrailingZeros(n) == IF n % 2 = 1 THEN 0 ELSE 1 + TrailingZeros(n \div 2)

\* rand() / RAND_MAX, as far as the model tells its values apart
Randoms == {0, VALUE_UNIT}

\* g.step(): the set of outcomes, each the generator left, the value
\* returned and whether the call went through a null pointer.  The noise
\* generators have one outcome per value rand() may return.
GeneratorStep(g) ==
  CASE g.kind = "DC" ->
         { [gen |-> g, out |-> FloorDiv(g.minValue + g.maxValue, 2),
            failed |-> FALSE] }
    [] g.kind = "WhiteNoise" ->
         { [gen |-> g,
            out |-> g.minValue
                      + FloorDiv(r * (g.maxValue - g.minValue), VALUE_UNIT),
            failed |-> FALSE] : r \in Randoms }
    [] g.kind = "PinkNoise" ->
         LET counter == (g.counter + 1) % Pow2(PINK_NOISE_OCTAVE_COUNT)
             zeros == TrailingZeros(counter)
         IN  { LET g1 == IF counter # 0
                         THEN [g EXCEPT !.counter = counter,
                                        !.sum = g.sum - g.octaves[zeros] + r1,
                                        !.octaves[zeros] = r1]
                         ELSE [g EXCEPT !.counter = counter]
               IN  [gen |-> g1,
                    out |-> g.minValue
                              + FloorDiv((g1.sum + r2)
                                           * (g.maxValue - g.minValue),
                                         (PINK_NOISE_OCTAVE_COUNT + 1)
                                           * VALUE_UNIT),
                    failed |-> FALSE] : r1 \in Randoms, r2 \in Randoms }
    [] g.kind = "BrownNoise" ->
         { [gen |-> [g EXCEPT !.sum = g.sum + r],
            out |-> g.minValue
                      + FloorDiv((g.sum + r) * (g.maxValue - g.minValue),
                                 16 * VALUE_UNIT),
            failed |-> FALSE] :
           r \in { x \in {-VALUE_UNIT, 0, VALUE_UNIT} :
                     g.sum + x >= 0 /\ g.sum + x <= 16 * VALUE_UNIT } }
    [] g.kind = "Sine" ->
         { [gen |-> OscillatorStep(g), out |-> SineValue(g),
            failed |-> FALSE] }
    [] g.kind = "Pulse" ->
         { [gen |-> OscillatorStep(g), out |-> PulseValue(g),
            failed |-> FALSE] }
    [] g.kind = "Saw" ->
         { [gen |-> OscillatorStep(g), out |-> SawValue(g),
            failed |-> FALSE] }
    [] g.kind = "Triangle" ->
         { [gen |-> OscillatorStep(g), out |-> TriangleValue(g),
            failed |-> FALSE] }
    [] g.kind = "Interpolated" ->
         LET value == InterpolatedValue(g)
         IN  { [gen |-> OscillatorStep([g EXCEPT !.value = value]),
                out |-> Scale(g, value), failed |-> FALSE] }
    [] g.kind = "Additive" ->
         IF g.frequency = 0 \/ Len(g.partials) < 1
         THEN { [gen |-> g, out |-> 0, failed |-> FALSE] }
         ELSE LET g1 == updateWaveTable(g)
              IN  IF g1.waveTable = <<>>
                  THEN { [gen |-> g1, out |-> 0, failed |-> TRUE] }
                  ELSE { [gen |-> OscillatorStep(
                                    [g1 EXCEPT !.partials = AdvancePartials(g1)]),
                          out |-> SumPartials(g1, 1), failed |-> FALSE] }

\* what is known of the calls of g.step: whether there was one, its result,
\* whether it went through a null pointer, the phase before it, and the
\* results of the recorded calls with the phases before them
GenObs0 ==
  [stepped |-> FALSE, out |-> 0, failed |-> FALSE, before |-> 0,
   log |-> <<>>]

\* gen.step(), which no program makes after a call through a null pointer;
\* the call is recorded when logging, and otherwise made only while the
\* phase is within MaxSteps units of 0 and the counter of a PinkNoise
\* generator below MaxSteps
StepGenerator(logging) ==
  /\ ~genObs.failed
  /\ IF logging THEN Len(genObs.log) < MaxSteps
     ELSE gen.phase + gen.frequency >= -MaxSteps /\ gen.counter < MaxSteps
  /\ \E r \in GeneratorStep(gen) :
       /\ gen' = r.gen
       /\ genObs' = [stepped |-> TRUE, out |-> r.out, failed |-> r.failed,
                     before |-> gen.phase,
                     log |-> IF logging
                             THEN Append(genObs.log,
                                    [out |-> r.out, before |-> gen.phase])
                             ELSE genObs.log]
  /\ UNCHANGED <<engineVars, envVars, splitVars, delayVars, procVars>>

\* gen.frequency = f
SetFrequency(f) ==
  /\ gen' = [gen EXCEPT !.frequency = f]
  /\ UNCHANGED genObs
  /\ UNCHANGED <<engineVars, envVars, splitVars, delayVars, procVars>>

\* gen.setRange(vmin, vmax)
SetGeneratorRange(vmin, vmax) ==
  /\ gen' = setRange(gen, vmin, vmax)
  /\ UNCHANGED genObs
  /\ UNCHANGED <<engineVars, envVars, splitVars, delayVars, procVars>>

\* gen.width = w
SetWidth(w) ==
  /\ gen.kind = "Pulse"
  /\ gen' = [gen EXCEPT !.width = w]
  /\ UNCHANGED genObs
  /\ UNCHANGED <<engineVars, envVars, splitVars, delayVars, procVars>>

\* gen.shape(ps)
SetShape(ps) ==
  /\ gen.kind = "Interpolated"
  /\ gen' = shape(gen, ps)
  /\ UNCHANGED genObs
  /\ UNCHANGED <<engineVars, envVars, splitVars, delayVars, procVars>>

\* gen.partials[i].amplitude = a
SetAmplitude(i, a) ==
  /\ gen.kind = "Additive"
  /\ gen' = [gen EXCEPT !.partials[i].amplitude = a]
  /\ UNCHANGED genObs
  /\ UNCHANGED <<engineVars, envVars, splitVars, delayVars, procVars>>

\* ------------------------------------------------------------------------
\* Synth library: the splitter (lib/signals.h)
\* ------------------------------------------------------------------------
\* Splitter(s, count): value = 0.0 and every output in the sent state.  The
\* source is a generator whose n-th sample is n; pulled counts its steps.
Splitter(count) ==
  [value |-> 0, outputCount |-> count,
   sent |-> [o \in 0 .. (count - 1) |-> 1], pulled |-> 0]

\* the outputs of splitter s
OutputsOf(s) == 0 .. (s.outputCount - 1)

\* Splitter::step(out) without the loop that clears the sent flags
SplitterStepNoClear(s, out) ==
  IF s.sent[out] # 0
  THEN [s EXCEPT !.value = s.pulled + 1, !.pulled = s.pulled + 1]
  ELSE [s EXCEPT !.sent[out] = 1]

\* Splitter::step(out) without the mark a non-leading output leaves
SplitterStepNoMark(s, out) ==
  IF s.sent[out] # 0
  THEN [s EXCEPT !.value = s.pulled + 1, !.pulled = s.pulled + 1,
                 !.sent = [o \in OutputsOf(s) |-> IF o = out THEN 1 ELSE 0]]
  ELSE s

\* Splitter::step(out): the splitter it leaves; the call returns its value
SplitterStep(s, out) ==
  IF s.sent[out] # 0
  THEN [s EXCEPT !.value = s.pulled + 1, !.pulled = s.pulled + 1,
                 !.sent = [o \in OutputsOf(s) |-> IF o = out THEN 1 ELSE 0]]
  ELSE [s EXCEPT !.sent[out] = 1]

\* what is known of the calls of split.output[o].step(): whether there was
\* one, the output stepped last and the value it returned, the outputs
\* stepped since all of them were last stepped (served) and how often that
\* happened (rounds), the samples the outputs returned in the current round
\* (got), the outputs that have returned the sample pulled last
\* (delivered), and whether a sample was pulled while some output had not
\* returned the one before (skipped)
SplitObs0 ==
  [stepped |-> FALSE, last |-> 0, out |-> 0, served |-> {}, rounds |-> 0,
   got |-> {}, delivered |-> {}, skipped |-> FALSE]

\* split.output[o].step(), that is SplitterOutput::step calling
\* source->step(this)
StepOutput(o) ==
  /\ o \in OutputsOf(split)
  /\ split.pulled < MaxSteps
  /\ LET s == SplitterStep(split, o)
         full == splitObs.served \cup {o} = OutputsOf(split)
     IN  /\ split' = s
         /\ splitObs' =
              [stepped |-> TRUE, last |-> o, out |-> s.value,
               served |-> IF full THEN {} ELSE splitObs.served \cup {o},
               rounds |-> IF full THEN splitObs.rounds + 1
                          ELSE splitObs.rounds,
               got |-> IF splitObs.served = {} THEN {s.value}
                       ELSE splitObs.got \cup {s.value},
               delivered |-> IF s.pulled # split.pulled THEN {o}
                             ELSE splitObs.delivered \cup {o},
               skipped |-> \/ splitObs.skipped
                           \/ /\ s.pulled # split.pulled
                              /\ split.pulled # 0
                              /\ splitObs.delivered # OutputsOf(split)]
  /\ UNCHANGED <<engineVars, envVars, genVars, delayVars, procVars>>

(***************************************************************************)
(* Synth library: the delay line (signals.h, Delay).                       *)
(*                                                                         *)
(* A float location or length is a whole number of 1/LOCATION_UNIT: with   *)
(* STEP_TIME = 1/64 (test.cpp) the location 1 is one step time when read   *)
(* as seconds, 1/64 of the buffer when read as a phase and 1/64 of a       *)
(* sample when read as samples.  Positions in the buffer (samples,         *)
(* remainder, the result of sampleAtLocation) are whole numbers of         *)
(* 1/POS_UNIT of a sample; sample values are in units of 1/SAMPLE_UNIT,    *)
(* a product that is not a whole number of units being cut to one, and the *)
(* feedback coefficient is in units of 1/FEEDBACK_UNIT.                    *)
(***************************************************************************)
LOCATION_UNIT == 64
POS_UNIT == 128
SAMPLE_UNIT == 16384
FEEDBACK_UNIT == 2

\* SampleUnit, SampleMode and SampleOperation: a SampleFlags value carries
\* one of each
SampleUnit == {"SampleUnitPhase", "SampleUnitSeconds", "SampleUnitSamples"}
SampleMode == {"SampleModeInterpolated", "SampleModeAligned"}
SampleOperation ==
  {"SampleOperationSet", "SampleOperationAdd", "SampleOperationMultiply"}
SampleFlags(u, m, o) == [unit |-> u, mode |-> m, operation |-> o]

\* fmod(x, y) for y > 0: the remainder has the sign of x
fmod(x, y) == IF x >= 0 THEN x % y ELSE -((-x) % y)
\* the % of C on ints, truncating towards zero
CMod(a, b) == IF a >= 0 THEN a % b ELSE -((-a) % b)
\* round(x) of a position: to the nearest whole sample, halves away from 0
round(x) ==
  IF x >= 0 THEN ((x + POS_UNIT \div 2) \div POS_UNIT) * POS_UNIT
  ELSE -(((-x + POS_UNIT \div 2) \div POS_UNIT) * POS_UNIT)
\* (int)floor(x) and (int)ceil(x) of a position, in whole samples
floor(x) == x \div POS_UNIT
ceil(x) == -((-x) \div POS_UNIT)

Zeros(n) == [i \in 1..n |-> 0]

\* Delay::_init: no buffer, no feedback
Delay0 ==
  [buffer |-> <<>>, bufferLen |-> 0, seconds |-> 0, samples |-> 0,
   remainder |-> 0, nextFeedback |-> 0, insertIndex |-> 0, feedback |-> 0]

\* Delay::setDelay on a delay line that has no buffer yet, as the
\* constructor calls it; seconds is kept in 1/POS_UNIT of a step time
setDelay(d, length, flags) ==
  LET given == IF flags.unit = "SampleUnitSamples"
               THEN (length * POS_UNIT) \div LOCATION_UNIT
               ELSE IF flags.unit = "SampleUnitSeconds"
               THEN length * POS_UNIT
               ELSE d.samples
      samples == IF flags.mode = "SampleModeAligned" THEN round(given)
                 ELSE given
      newBufferLen == ceil(samples)
  IN  IF ~(samples > 0)
      THEN [d EXCEPT !.buffer = <<>>, !.bufferLen = 0, !.insertIndex = 0,
                     !.samples = 0, !.remainder = 0, !.seconds = 0]
      ELSE LET sized ==
                 [d EXCEPT !.samples = samples,
                           !.seconds = IF flags.unit = "SampleUnitPhase"
                                       THEN d.seconds ELSE given,
                           !.remainder =
                             fmod(POS_UNIT
                                    - (newBufferLen * POS_UNIT - samples),
                                  POS_UNIT)]
           IN  IF newBufferLen = d.bufferLen THEN sized
               ELSE [sized EXCEPT !.buffer = Zeros(newBufferLen),
                                  !.bufferLen = newBufferLen,
                                  !.insertIndex = 0]

\* Delay::Delay(s, length, flags)
Delay(length, flags) == setDelay(Delay0, length, flags)

\* Delay::sampleAtLocation: the phase computed from the location is clamped
\* and then left unused, the position is taken from the location itself
sampleAtLocation(d, location, flags) ==
  LET at == d.insertIndex * POS_UNIT + d.remainder
      sample ==
        IF flags.unit = "SampleUnitSamples"
        THEN fmod(at + (location * POS_UNIT) \div LOCATION_UNIT, d.samples)
        ELSE fmod(at + Quot(location * (d.samples - POS_UNIT),
                            LOCATION_UNIT),
                  d.samples)
  IN  IF flags.mode = "SampleModeAligned" THEN round(sample) ELSE sample

\* the two buffer indices tapIn and tapOut compute for a position
prevIndex(d, sample) ==
  IF floor(sample) < 0 THEN floor(sample) + d.bufferLen ELSE floor(sample)
nextIndex(d, sample) == CMod(ceil(sample), d.bufferLen)
mix(sample) == sample - floor(sample) * POS_UNIT
InBuffer(d, i) == i >= 0 /\ i < d.bufferLen

\* buffer[i] = v, and buffer[i] where a cell outside the buffer reads as junk
Put(buffer, i, v) ==
  IF i >= 0 /\ i < Len(buffer) THEN [buffer EXCEPT ![i + 1] = v] ELSE buffer
Get(buffer, i, junk) ==
  IF i >= 0 /\ i < Len(buffer) THEN buffer[i + 1] ELSE junk

\* product of a value and a fraction of POS_UNIT, and of two values
Part(v, m) == Quot(v * m, POS_UNIT)
Product(a, b) == Quot(a * b, SAMPLE_UNIT)

\* the new content of a cell under a SampleOperation
Operate(flags, old, v) ==
  IF flags.operation = "SampleOperationAdd" THEN old + v
  ELSE IF flags.operation = "SampleOperationMultiply" THEN Product(old, v)
  ELSE v

\* Delay::tapIn: the outcomes of the call; a write outside the buffer is
\* undefined, it either leaves the buffer as it is or ends the program
tapIn(d, location, value, flags) ==
  IF d.bufferLen = 0 \/ value = 0
  THEN {[delay |-> d, failed |-> FALSE, indices |-> {}]}
  ELSE
    LET sample == sampleAtLocation(d, location, flags)
        p == prevIndex(d, sample)
        n == nextIndex(d, sample)
        m == mix(sample)
        b1 == Put(d.buffer, p,
                  Operate(flags, Get(d.buffer, p, 0),
                          IF n = p THEN value
                          ELSE Part(value, POS_UNIT - m)))
        b2 == IF n = p THEN b1
              ELSE Put(b1, n, Operate(flags, Get(b1, n, 0), Part(value, m)))
        done == [delay |-> [d EXCEPT !.buffer = b2], failed |-> FALSE,
                 indices |-> {p, n}]
    IN  IF InBuffer(d, p) /\ InBuffer(d, n) THEN {done}
        ELSE {done, [delay |-> d, failed |-> TRUE, indices |-> {p, n}]}

\* Delay::tapOut: the outcomes of the call; a read outside the buffer is
\* undefined, it yields some value or ends the program
tapOut(d, location, flags, Junk) ==
  IF d.bufferLen = 0
  THEN {[out |-> 0, failed |-> FALSE, indices |-> {}]}
  ELSE
    LET sample == sampleAtLocation(d, location, flags)
        p == prevIndex(d, sample)
        n == nextIndex(d, sample)
        m == mix(sample)
        read(j) ==
          [out |-> IF n = p THEN Get(d.buffer, p, j)
                   ELSE Part(Get(d.buffer, p, j), POS_UNIT - m)
                          + Part(Get(d.buffer, n, j), m),
           failed |-> FALSE, indices |-> {p, n}]
    IN  IF InBuffer(d, p) /\ InBuffer(d, n) THEN {read(0)}
        ELSE {read(j) : j \in Junk}
               \cup {[out |-> 0, failed |-> TRUE, indices |-> {p, n}]}

\* Delay::step on the input in (0 when no source is connected), with the
\* default feedbackOperation
DelayStepNext(d, in) ==
  IF d.bufferLen = 0 THEN [delay |-> d, out |-> in]
  ELSE
    LET curr == d.buffer[d.insertIndex + 1]
        next == (d.insertIndex + 1) % d.bufferLen
        nextValue == d.buffer[next + 1]
        fed == Quot(d.feedback
                      * (d.nextFeedback + Part(curr, POS_UNIT - d.remainder)),
                    FEEDBACK_UNIT)
    IN  [delay |-> [d EXCEPT !.buffer[d.insertIndex + 1] = in + fed,
                             !.nextFeedback = Part(nextValue, d.remainder),
                             !.insertIndex = next],
         out |-> nextValue]
DelayStep(d, in) ==
  IF d.bufferLen = 0 THEN [delay |-> d, out |-> in]
  ELSE
    LET curr == d.buffer[d.insertIndex + 1]
        next == (d.insertIndex + 1) % d.bufferLen
        nextValue == d.buffer[next + 1]
        fed == Quot(d.feedback
                      * (d.nextFeedback + Part(curr, POS_UNIT - d.remainder)),
                    FEEDBACK_UNIT)
    IN  [delay |-> [d EXCEPT !.buffer[d.insertIndex + 1] = in + fed,
                             !.nextFeedback = Part(nextValue, d.remainder),
                             !.insertIndex = next],
         out |-> curr + Part(nextValue - curr, d.remainder)]

\* what the last call on the delay line was and what it gave; log lists
\* the inputs and outputs of the steps taken, made is what the constructor
\* was given
DelayObs0 ==
  [op |-> "none", location |-> 0, flags |-> SampleFlags("SampleUnitPhase",
     "SampleModeInterpolated", "SampleOperationAdd"),
   value |-> 0, out |-> 0, sample |-> 0, indices |-> {}, failed |-> FALSE,
   taps |-> 0, log |-> <<>>,
   made |-> [length |-> 0, flags |-> SampleFlags("SampleUnitSeconds",
               "SampleModeInterpolated", "SampleOperationAdd")]]

\* delay.step() with the source giving in; the step is entered in the log
\* when logging
StepDelay(in, logging) ==
  /\ ~delayObs.failed
  /\ logging => Len(delayObs.log) < MaxSteps
  /\ LET r == DelayStep(delay, in)
     IN  /\ delay' = r.delay
         /\ delayObs' = [delayObs EXCEPT
              !.op = "step", !.location = 0, !.flags = DelayObs0.flags,
              !.value = in, !.out = r.out, !.sample = 0, !.indices = {},
              !.log = IF logging THEN Append(@, [in |-> in, out |-> r.out])
                      ELSE @]
  /\ UNCHANGED <<engineVars, envVars, genVars, splitVars, procVars>>

\* delay.tapIn(location, value, flags)
TapIn(location, value, flags) ==
  /\ ~delayObs.failed
  /\ delayObs.taps < MaxTaps
  /\ \E r \in tapIn(delay, location, value, flags) :
       /\ delay' = r.delay
       /\ delayObs' = [delayObs EXCEPT
            !.op = "tapIn", !.location = location, !.flags = flags,
            !.value = value, !.out = 0,
            !.sample = IF delay.bufferLen = 0 THEN 0
                       ELSE sampleAtLocation(delay, location, flags),
            !.indices = r.indices, !.failed = r.failed, !.taps = @ + 1]
  /\ UNCHANGED <<engineVars, envVars, genVars, splitVars, procVars>>

\* delay.tapOut(location, flags)
TapOut(location, flags, Junk) ==
  /\ ~delayObs.failed
  /\ \E r \in tapOut(delay, location, flags, Junk) :
       /\ delayObs' = [delayObs EXCEPT
            !.op = "tapOut", !.location = location, !.flags = flags,
            !.value = 0, !.out = r.out,
            !.sample = IF delay.bufferLen = 0 THEN 0
                       ELSE sampleAtLocation(delay, location, flags),
            !.indices = r.indices, !.failed = r.failed]
  /\ UNCHANGED <<delay, engineVars, envVars, genVars, splitVars, procVars>>

(***************************************************************************)
(* Synth library: the processors (signals.h).  Samples are in units of     *)
(* 1/VALUE_UNIT, ratios in units of 1/RATIO_UNIT, phases and frequencies   *)
(* as for the oscillators.                                                 *)
(***************************************************************************)
RATIO_UNIT == 4

\* a source, modulator or carrier pointer that is NULL
NoGenerator == [kind |-> "NULL"]

\* the constructors without a source: Processor(), Amplifier(), Limiter(),
\* Rectifier(), Quantizer(), SampleAndHold(), SplitterOutput(), Mixer(),
\* AM(), FM() and Delay(); splitter tells whether a SplitterOutput belongs
\* to a Splitter
Processor(kind) ==
  [kind |-> kind, minValue |-> -VALUE_UNIT, maxValue |-> VALUE_UNIT,
   source |-> NoGenerator, source2 |-> NoGenerator,
   carrier |-> NoGenerator, modulator |-> NoGenerator,
   ratio |-> IF kind = "Mixer" THEN RATIO_UNIT \div 2 ELSE RATIO_UNIT,
   steps |-> 0, frequency |-> 0, phase |-> PHASE_UNIT, sampled |-> 0,
   riseTime |-> 0, fallTime |-> 0, value |-> 0,
   splitter |-> FALSE, delay |-> Delay0]

\* FM(s1, s2)
FM(carrier, modulator) ==
  [Processor("FM") EXCEPT !.carrier = carrier, !.modulator = modulator]

\* the function-local statics of FM::step, one set for all FM objects, and
\* mix, the static s of Mixer::step, one for all Mixer objects
Statics0 == [oldFreq |-> 0, freq |-> 0, s |-> 0, mix |-> 0]

\* a connected source of which the range is kept and the calls of its step
\* are counted; the samples it gives are chosen by the step of the processor
Source(vmin, vmax) ==
  [kind |-> "Source", minValue |-> vmin, maxValue |-> vmax, steps |-> 0]
\* the source after its step was called once more
Pulled(g) == IF g.kind = "Source" THEN [g EXCEPT !.steps = @ + 1] ELSE g

\* a sample read as a frequency in Hz, in phase units per step
ToFrequency(v) == Quot(v, PHASE_UNIT * VALUE_UNIT)

\* round(a / b), halves away from zero
RoundDiv(a, b) ==
  LET n == IF b < 0 THEN -a ELSE a
      m == IF b < 0 THEN -b ELSE b
  IN  IF n >= 0 THEN (2 * n + m) \div (2 * m)
      ELSE -((-2 * n + m) \div (2 * m))

\* Limiter::step on the sample s
LimiterValue(p, s) ==
  IF s < p.minValue THEN p.minValue
  ELSE IF s > p.maxValue THEN p.maxValue ELSE s

\* a rectifier that takes the bound of the other parity
RectifierValueOtherBound(p, s) ==
  LET range == p.maxValue - p.minValue
  IN  IF ~(range > 0) THEN s
      ELSE IF s < p.minValue
      THEN LET delta == p.minValue - s
           IN  IF (delta \div range) % 2 = 0
               THEN p.maxValue - fmod(delta, range)
               ELSE p.minValue + fmod(delta, range)
      ELSE IF s > p.maxValue
      THEN LET delta == s - p.maxValue
           IN  IF (delta \div range) % 2 = 0
               THEN p.minValue + fmod(delta, range)
               ELSE p.maxValue - fmod(delta, range)
      ELSE s

\* Rectifier::step on the sample s
RectifierValue(p, s) ==
  LET range == p.maxValue - p.minValue
  IN  IF ~(range > 0) THEN s
      ELSE IF s < p.minValue
      THEN LET delta == p.minValue - s
           IN  IF (delta \div range) % 2 = 0
               THEN p.minValue + fmod(delta, range)
               ELSE p.maxValue - fmod(delta, range)
      ELSE IF s > p.maxValue
      THEN LET delta == s - p.maxValue
           IN  IF (delta \div range) % 2 = 0
               THEN p.maxValue - fmod(delta, range)
               ELSE p.minValue + fmod(delta, range)
      ELSE s

\* Quantizer::step on the sample s, for steps > 0 and a range that is not
\* empty
QuantizerValue(p, s) ==
  LET range == p.maxValue - p.minValue
  IN  p.minValue
        + Quot(RoundDiv((s - p.minValue) * p.steps, range) * range, p.steps)

\* FM::step: the outcomes of a call, with the statics it leaves.  freq +=
\* modulator->step() reads freq before or after the call, as the compiler
\* orders it.
RECURSIVE FMStep(_, _)
FMStep(fm, statics) ==
  IF fm.carrier.kind = "NULL"
  THEN {[fm |-> fm, statics |-> statics, out |-> 0, failed |-> FALSE]}
  ELSE
    LET saved == [statics EXCEPT !.oldFreq = fm.carrier.frequency,
                                 !.freq = fm.carrier.frequency]
        modulated ==
          IF fm.modulator.kind = "NULL"
          THEN {[modulator |-> fm.modulator, statics |-> saved, out |-> 0,
                 failed |-> FALSE]}
          ELSE IF fm.modulator.kind = "FM"
          THEN {[modulator |-> r.fm, statics |-> r.statics, out |-> r.out,
                 failed |-> r.failed] : r \in FMStep(fm.modulator, saved)}
          ELSE {[modulator |-> r.gen, statics |-> saved, out |-> r.out,
                 failed |-> r.failed] : r \in GeneratorStep(fm.modulator)}
    IN  UNION { UNION { { [fm |-> [fm EXCEPT
                                     !.modulator = m.modulator,
                                     !.carrier =
                                       [c.gen EXCEPT
                                          !.frequency = m.statics.oldFreq]],
                           statics |-> [m.statics EXCEPT
                                          !.freq = base + ToFrequency(m.out),
                                          !.s = c.out],
                           out |-> c.out,
                           failed |-> m.failed \/ c.failed] :
                          c \in GeneratorStep(
                                  [fm.carrier EXCEPT
                                     !.frequency =
                                       base + ToFrequency(m.out)]) } :
                      base \in {saved.freq, m.statics.freq} } :
                m \in modulated }

\* a slew rate limiter that limits both directions by riseTime
SlewRateLimiterValueOneTime(p, target, sourceRange) ==
  LET delta == IF target > p.value THEN target - p.value
               ELSE p.value - target
      maxDelta == IF p.riseTime > 0 THEN Quot(sourceRange, p.riseTime)
                  ELSE delta
      limited == IF p.riseTime > 0 /\ delta > maxDelta THEN maxDelta
                 ELSE delta
  IN  IF target > p.value THEN p.value + limited ELSE p.value - limited

\* SlewRateLimiter::step towards target, for a source of range sourceRange;
\* the times are in step times
SlewRateLimiterValue(p, target, sourceRange) ==
  IF target > p.value
  THEN LET delta == target - p.value
           maxDelta == IF p.riseTime > 0 THEN Quot(sourceRange, p.riseTime)
                       ELSE delta
       IN  p.value + (IF p.riseTime > 0 /\ delta > maxDelta THEN maxDelta
                      ELSE delta)
  ELSE IF target < p.value
  THEN LET delta == p.value - target
           maxDelta == IF p.fallTime > 0 THEN Quot(sourceRange, p.fallTime)
                       ELSE delta
       IN  p.value - (IF p.fallTime > 0 /\ delta > maxDelta THEN maxDelta
                      ELSE delta)
  ELSE p.value

\* step() of a source of a Mixer, which is a counted source giving s, a
\* generator or another Mixer, and Mixer::step: the outcomes of a call with
\* the statics it leaves.  s += source->step() * ... reads s before or
\* after the call, as the compiler orders it.
RECURSIVE SourceStep(_, _, _), MixerStep(_, _, _, _)
SourceStep(g, statics, s) ==
  IF g.kind = "Source"
  THEN {[gen |-> Pulled(g), statics |-> statics, out |-> s,
         failed |-> FALSE]}
  ELSE IF g.kind = "Mixer"
  THEN {[gen |-> r.proc, statics |-> r.statics, out |-> r.out,
         failed |-> r.failed] : r \in MixerStep(g, statics, s, s)}
  ELSE {[gen |-> r.gen, statics |-> statics, out |-> r.out,
         failed |-> r.failed] : r \in GeneratorStep(g)}
MixerStep(p, statics, s, s2) ==
  LET cleared == {[proc |-> p, statics |-> [statics EXCEPT !.mix = 0],
                   failed |-> FALSE]}
      first ==
        UNION { IF a.proc.source.kind = "NULL" THEN {a}
                ELSE UNION { { [proc |-> [a.proc EXCEPT !.source = r.gen],
                                statics |->
                                  [r.statics EXCEPT
                                     !.mix = base
                                       + Quot(r.out * (RATIO_UNIT - p.ratio),
                                              RATIO_UNIT)],
                                failed |-> r.failed] :
                               base \in {a.statics.mix, r.statics.mix} } :
                             r \in SourceStep(a.proc.source, a.statics, s) } :
                a \in cleared }
      second ==
        UNION { IF a.proc.source2.kind = "NULL" THEN {a}
                ELSE UNION { { [proc |-> [a.proc EXCEPT !.source2 = r.gen],
                                statics |->
                                  [r.statics EXCEPT
                                     !.mix = base
                                       + Quot(r.out * p.ratio, RATIO_UNIT)],
                                failed |-> a.failed \/ r.failed] :
                               base \in {a.statics.mix, r.statics.mix} } :
                             r \in SourceStep(a.proc.source2, a.statics,
                                              s2) } :
                a \in first }
  IN  {[proc |-> a.proc, statics |-> a.statics, out |-> a.statics.mix,
        failed |-> a.failed] : a \in second}

\* step() of a processor: the outcomes of a call in which the connected
\* sources give the samples s and s2; nan tells that the result is not a
\* number.  A SplitterOutput of no Splitter calls through a NULL pointer,
\* which is undefined: the call ends the program or yields some value.
ProcessorStep(p, statics, s, s2) ==
  LET in == IF p.source.kind = "NULL" THEN 0 ELSE s
      in2 == IF p.modulator.kind = "NULL" THEN 0 ELSE s2
      fed == [p EXCEPT !.source = Pulled(@)]
      gives(q, v) == {[proc |-> q, statics |-> statics, out |-> v,
                       nan |-> FALSE, failed |-> FALSE]}
  IN  CASE p.kind = "Processor" -> gives(fed, in)
        [] p.kind = "Amplifier" -> gives(fed, Quot(in * p.ratio, RATIO_UNIT))
        [] p.kind = "Limiter" -> gives(fed, LimiterValue(p, in))
        [] p.kind = "Rectifier" -> gives(fed, RectifierValue(p, in))
        [] p.kind = "SlewRateLimiter" ->
             LET value ==
                   SlewRateLimiterValue(p, in,
                     IF p.source.kind = "NULL" THEN 2 * VALUE_UNIT
                     ELSE p.source.maxValue - p.source.minValue)
             IN  gives([fed EXCEPT !.value = value], value)
        [] p.kind = "Quantizer" ->
             IF ~(p.steps > 0) THEN gives(fed, in)
             ELSE IF p.maxValue = p.minValue
             THEN {[proc |-> fed, statics |-> statics, out |-> 0,
                    nan |-> TRUE, failed |-> FALSE]}
             ELSE gives(fed, QuantizerValue(p, in))
        [] p.kind = "SampleAndHold" ->
             LET taken == p.phase >= PHASE_UNIT
                 sampled == IF taken THEN in ELSE p.sampled
                 phase == IF taken THEN p.phase % PHASE_UNIT ELSE p.phase
             IN  gives([fed EXCEPT !.sampled = sampled,
                                   !.phase = phase + p.frequency], sampled)
        [] p.kind = "SplitterOutput" ->
             IF p.splitter THEN gives(fed, in)
             ELSE {[proc |-> p, statics |-> statics, out |-> v,
                    nan |-> FALSE, failed |-> FALSE] : v \in Randoms}
                    \cup {[proc |-> p, statics |-> statics, out |-> 0,
                           nan |-> FALSE, failed |-> TRUE]}
        [] p.kind = "Mixer" ->
             {[proc |-> r.proc, statics |-> r.statics, out |-> r.out,
               nan |-> FALSE, failed |-> r.failed] :
                r \in MixerStep(p, statics, s, s2)}
        [] p.kind = "AM" ->
             gives([fed EXCEPT !.modulator = Pulled(@)],
                   IF p.source.kind = "NULL" THEN 0
                   ELSE Quot((VALUE_UNIT + in2) * in, VALUE_UNIT))
        [] p.kind = "FM" ->
             {[proc |-> r.fm, statics |-> r.statics, out |-> r.out,
               nan |-> FALSE, failed |-> r.failed] :
                r \in FMStep(p, statics)}
        [] p.kind = "Delay" ->
             LET r == DelayStep(p.delay, in)
             IN  gives([fed EXCEPT !.delay = r.delay], r.out)

\* what the last step of the processor returned and the samples its
\* sources were to give; count is the number of steps taken
ProcObs0 ==
  [stepped |-> FALSE, out |-> 0, nan |-> FALSE, failed |-> FALSE,
   in |-> 0, in2 |-> 0, count |-> 0]

\* proc.step(), the connected sources giving s and s2
StepProcessor(s, s2) ==
  /\ ~procObs.failed
  /\ procObs.count < MaxSteps
  /\ \E r \in ProcessorStep(proc.unit, proc.statics, s, s2) :
       /\ proc' = [unit |-> r.proc, statics |-> r.statics]
       /\ procObs' = [stepped |-> TRUE, out |-> r.out, nan |-> r.nan,
                      failed |-> r.failed, in |-> s, in2 |-> s2,
                      count |-> procObs.count + 1]
  /\ UNCHANGED <<engineVars, envVars, genVars, splitVars, delayVars>>

\* proc.setRange(vmin, vmax)
SetProcessorRange(vmin, vmax) ==
  /\ proc' = [proc EXCEPT !.unit = setRange(@, vmin, vmax)]
  /\ UNCHANGED procObs
  /\ UNCHANGED <<engineVars, envVars, genVars, splitVars, delayVars>>

\* a generator, a splitter, a delay and a processor that are not looked at
GeneratorAtRest == gen = Generator("DC", 0, 0, 0) /\ genObs = GenObs0
SplitterAtRest == split = Splitter(2) /\ splitObs = SplitObs0
DelayAtRest == delay = Delay0 /\ delayObs = DelayObs0
ProcessorAtRest ==
  /\ proc = [unit |-> Processor("Processor"), statics |-> Statics0]
  /\ procObs = ProcObs0

\* the generators and processors of an engine whose patch graph is not
\* looked at
DspAtRest ==
  /\ GeneratorAtRest
  /\ SplitterAtRest
  /\ DelayAtRest
  /\ ProcessorAtRest

\* the library objects of an engine whose patch graph is not looked at
LibraryAtRest ==
  /\ env = Envelope("ADSR", 0, 0)
  /\ envObs = EnvObs0
  /\ trig = [kind |-> "Rise", threshold |-> 0, last |-> 0]
  /\ trigObs = TrigObs0
  /\ DspAtRest

\* ------------------------------------------------------------------------
\* Inputs
\* ------------------------------------------------------------------------
BlockLengths == 1 .. MaxBlock
\* frame offsets of events: inside the block, at its end and (for the
\* shorter blocks) beyond it
Times == 0 .. MaxBlock
\* code paths, by number
Paths == {1}
\* block lengths and frame offsets of events in the patch protocol
PatchBlocks == {2}
PatchTimes == {1}

\* events of the patch protocol: build requests
PatchEvents == { Event(t, "codepath", p, 0, <<>>) : t \in PatchTimes, p \in Paths }

SavedStates ==
  { [has |-> {"codepath", "autobuild", "polyphony", "bendrange"},
     codepath |-> 1, autobuild |-> 1, polyphony |-> 2, bendrange |-> 2,
     cv |-> <<>>] }

\* ------------------------------------------------------------------------
\* Specification: the engine with the patch protocol
\* ------------------------------------------------------------------------
\* the state instantiate() returns, for an instance s and a heap hp
EngineConstructed(s, hp) ==
  /\ self = s
  /\ heap = hp
  /\ workQ = <<>>
  /\ respQ = <<>>
  /\ pc = "idle"
  /\ sample_count = 0
  /\ start_sample = 0
  /\ nevents = 0
  /\ outLog = <<>>
  /\ ref = <<>>
  /\ eventsOk = TRUE
  /\ lastEvent = NoEvent
  /\ lastVoice = 0
  /\ streak = <<>>
  /\ hist = Hist0

\* the same, with the library objects at rest
Constructed(s, hp) == EngineConstructed(s, hp) /\ LibraryAtRest

Init == Constructed(Csynth0, <<>>)

RunBeginPatch == \E n \in PatchBlocks : RunBegin(n)
RunEventPatch == \E ev \in PatchEvents : nevents < MaxEvents /\ RunEvent(ev)
RestoreSaved == \E st \in SavedStates : restore(st)

Next ==
  \/ RunBeginPatch
  \/ RunEventPatch
  \/ RunEnd
  \/ work
  \/ work_response
  \/ RestoreSaved
  \/ cleanup

Spec == Init /\ [][Next]_vars

\* ------------------------------------------------------------------------
\* Properties of the patch protocol
\* ------------------------------------------------------------------------
Units == DOMAIN heap

C2_WorkerInstallsOnlyValid ==
  \A u \in Units :
    heap[u].installed_in = "rt" => heap[u].built /\ heap[u].loaded

\* C3: build_patch, load_patch and dispose_patch run only in the worker or
\* in restore and cleanup; the audio thread only installs.
C3_NoLifecycleOnAudioThread ==
  \A u \in Units :
    /\ heap[u].built_in \in {"worker", "state"}
    /\ heap[u].loaded_in \in {"none", "worker", "state"}
    /\ heap[u].disposed_in \in {"none", "worker", "state"}
    /\ heap[u].installed_in \in {"none", "rt", "state"}

\* C3 witness: the audio thread has replaced a unit, which the worker built,
\* loaded and then disposed.
C3_Witness ==
  \E u \in Units :
    /\ heap[u].built_in = "worker"
    /\ heap[u].loaded_in = "worker"
    /\ heap[u].installed_in = "rt"
    /\ heap[u].disposed_in = "worker"
    /\ self.patch \notin {NULL, u}

\* ------------------------------------------------------------------------
\* Specification: the render loop, with a patch installed by restore
\* ------------------------------------------------------------------------
RenderEvents ==
  { Event(t, k[1], k[2], k[3], <<>>) :
      t \in Times,
      k \in { <<"note_on", 60, 100>>, <<"controller", 1, 64>>,
              <<"bender", 127, 127>> } }

RenderStates ==
  { [has |-> {"codepath", "autobuild", "polyphony", "bendrange"},
     codepath |-> 1, autobuild |-> 1, polyphony |-> 2, bendrange |-> 2,
     cv |-> <<>>] }

\* the host restores a saved state right after instantiate()
InitRender ==
  \E st \in RenderStates : \E o \in RestoreOutcomes(st) :
    LET r == RestoreResult(Csynth0, <<>>, st, o)
    IN  Constructed(r.self, r.heap)

RunBeginRender == \E n \in BlockLengths : RunBegin(n)
RunEventRender == \E ev \in RenderEvents : nevents < MaxEvents /\ RunEvent(ev)

NextRender ==
  \/ RunBeginRender
  \/ RunEventRender
  \/ RunEnd

SpecRender == InitRender /\ [][NextRender]_vars

\* the unit installed during the current block has no step function to call
Unloaded(u) == u = NULL \/ ~ heap[u].loaded

\* the sample due at position p: the one synthesized from the state that the
\* events with time <= p, applied in order, lead to
Expected(p) == SampleOf(ref[p], ~ Unloaded(ref[p].patch))

\* C4: with ordered events in [0, N), run writes positions 0 .. N-1 once
\* each, in increasing order, and nothing else.
C4_EveryPositionOnce ==
  eventsOk =>
    /\ \A k \in DOMAIN outLog : outLog[k].pos = k - 1
    /\ pc = "run" => Len(outLog) = start_sample
    /\ pc = "idle" => Len(outLog) = sample_count

\* C4 witness: a finished block of two samples whose two events were both
\* note-ons at frame 1.
C4_Witness ==
  /\ pc = "idle" /\ eventsOk /\ sample_count = 2 /\ nevents = 2
  /\ ref[1].voice_allocation_index = ref[0].voice_allocation_index + 2
  /\ Len(outLog) = 2

\* C5: with ordered events in [0, N), the sample at position p is the one
\* synthesized from the state after exactly the events with time <= p.
C5_SampleAccurate ==
  eventsOk =>
    \A k \in DOMAIN outLog :
      outLog[k].pos < sample_count => outLog[k].sample = Expected(outLog[k].pos)

\* C5 witness: a note-on at frame 1 of a block rendered by a loaded patch:
\* sample 0 is synthesized without it, sample 1 with it.
C5_Witness ==
  /\ pc = "idle" /\ eventsOk /\ sample_count = 2 /\ Len(outLog) = 2
  /\ lastEvent.kind = "note_on" /\ lastEvent.time = 1
  /\ outLog[1].sample.unit # NULL
  /\ outLog[1].sample # outLog[2].sample
  /\ outLog[2].sample = Synth(self)

\* C6: in a block rendered with no unit installed, or with one that is not
\* loaded, every sample written is silence and no step function is called;
\* the events of the block are applied all the same.
C6_SilenceWithoutPatch ==
  /\ [](Unloaded(self.patch) /\ pc = "run" =>
          \A k \in DOMAIN outLog : outLog[k].sample = Silence)
  /\ [][Unloaded(self.patch) /\ nevents' = nevents + 1 =>
          self' = ApplyEvent(self, lastEvent')]_vars

\* C6 witness: a unit that failed to load is installed; the block so far is
\* silent and its note-on has set voice 0 sounding.
C6_Witness ==
  /\ pc = "run" /\ self.patch # NULL /\ ~ heap[self.patch].loaded
  /\ Len(outLog) = 1 /\ outLog[1].sample = Silence
  /\ lastEvent.kind = "note_on" /\ self.voices[0].velocity > 0

\* ------------------------------------------------------------------------
\* Specification: the voice pool under note and polyphony events
\* ------------------------------------------------------------------------
VoiceNotes == {60, 62}
VoiceVelocities == {0, 100}
VoicePolyphony == {2}
VoiceBlocks == {1}
VoicePressures == {0, 50}

VoiceEvents ==
  { Event(0, "note_on", n, v, <<>>) : n \in VoiceNotes, v \in VoiceVelocities }
  \cup { Event(0, "note_off", n, 0, <<>>) : n \in VoiceNotes }
  \cup { Event(0, "pressure", n, p, <<>>) : n \in VoiceNotes, p \in VoicePressures }
  \cup { Event(0, "polyphony", n, 0, <<>>) : n \in VoicePolyphony }

RunBeginVoice == \E n \in VoiceBlocks : RunBegin(n)
RunEventVoice == \E ev \in VoiceEvents : nevents < MaxEvents /\ RunEvent(ev)

NextVoice ==
  \/ RunBeginVoice
  \/ RunEventVoice
  \/ RunEnd

SpecVoice == Init /\ [][NextVoice]_vars

\* the voices allocate_voice looks at, and those of them that are silent
Active(s) == 0 .. (get_voice_count(s) - 1)
SilentActive(s) == { v \in Active(s) : s.voices[v].velocity = 0 }

\* voice v comes before voice w in the order "lowest recency counter, then
\* lowest index"
Older(s, v, w) ==
  \/ s.voices[v].allocation_index < s.voices[w].allocation_index
  \/ /\ s.voices[v].allocation_index = s.voices[w].allocation_index
     /\ v <= w

\* this step of run() applied an event of the given kind
Applied(kind) == nevents' = nevents + 1 /\ lastEvent'.kind = kind

Distinct(seq, field(_)) ==
  \A i, j \in DOMAIN seq : i # j => field(seq[i]) # field(seq[j])
NoteOfEntry(e) == e.note
VoiceOfEntry(e) == e.voice

\* C7 as stated: from a silent pool, N <= active_voice_count note-ons in a
\* row with distinct notes, of any velocity byte, get distinct voices.
C7_DistinctVoicesAnyVelocity ==
  (Len(streak) <= get_voice_count(self) /\ Distinct(streak, NoteOfEntry))
    => Distinct(streak, VoiceOfEntry)

\* C7 amended: the same for note-ons whose velocity byte is not 0.
C7_DistinctVoices ==
  ( /\ Len(streak) <= get_voice_count(self)
    /\ Distinct(streak, NoteOfEntry)
    /\ \A i \in DOMAIN streak : streak[i].velocity > 0 )
    => Distinct(streak, VoiceOfEntry)

\* C7 witness: two note-ons in a row from a silent pool, polyphony 2, on
\* voices 0 and 1.
C7_Witness ==
  /\ Len(streak) = 2 /\ get_voice_count(self) = 2
  /\ streak[1].velocity > 0 /\ streak[2].velocity > 0
  /\ streak[1].note # streak[2].note
  /\ streak[1].voice = 0 /\ streak[2].voice = 1
  /\ self.voices[0].note = streak[1].note /\ self.voices[1].note = streak[2].note

\* C8: when some active voice is silent, a note-on takes the silent active
\* voice with the lowest recency counter (lowest index among equals), never
\* a sounding one, stamps it with the global counter and increments that.
C8_OldestSilentVoice ==
  [][Applied("note_on") /\ SilentActive(self) # {} =>
       /\ lastVoice' \in SilentActive(self)
       /\ \A w \in SilentActive(self) : Older(self, lastVoice', w)
       /\ self'.voices[lastVoice'].allocation_index = self.voice_allocation_index
       /\ self'.voices[lastVoice'].note = lastEvent'.a
       /\ self'.voice_allocation_index = self.voice_allocation_index + 1]_vars

\* C8 witness: the note-on went to voice 1 although voice 0 was silent too,
\* voice 0 having been allocated later.
C8_Witness ==
  /\ lastEvent.kind = "note_on" /\ lastVoice = 1
  /\ self.voices[1].allocation_index = self.voice_allocation_index - 1
  /\ self.voices[0].velocity = 0
  /\ self.voices[0].allocation_index > 1

C10_NoteOffFrame ==
  [][Applied("note_off") =>
       self' = [self EXCEPT !.voices = [v \in Voices |->
                  IF self.voices[v].note = lastEvent'.a
                  THEN [self.voices[v] EXCEPT !.velocity = 0]
                  ELSE self.voices[v]]]]_vars

\* C10 witness: voice 0 was stolen for another note and is still sounding
\* after the note-off of the note it held before; voice 1 was silenced.
C10_Witness ==
  /\ lastEvent.kind = "note_off"
  /\ self.voices[0].note # lastEvent.a /\ self.voices[0].velocity > 0
  /\ self.voices[0].allocation_index >= 2
  /\ self.voices[1].note = lastEvent.a /\ self.voices[1].velocity = 0
  /\ self.voices[1].allocation_index = 1

\* the instance after a pressure event set every sounding voice holding the
\* note to the pressure byte, and nothing else
Pressed(s, note, pressure) ==
  [s EXCEPT !.voices = [v \in Voices |->
     IF s.voices[v].note = note /\ s.voices[v].velocity > 0
     THEN [s.voices[v] EXCEPT !.velocity = pressure]
     ELSE s.voices[v]]]

\* C11 as stated: a pressure event for note n with any pressure byte 0..127
\* sets the velocity of every sounding voice holding n to the byte and changes
\* nothing else; no voice is allocated.
C11_PressureAnyByte ==
  [][Applied("pressure") =>
       /\ self' = Pressed(self, lastEvent'.a, lastEvent'.b)
       /\ lastVoice' = lastVoice]_vars

\* C11 amended: the same for a pressure byte in 1..127; a pressure byte of 0
\* changes nothing at all.
C11_Pressure ==
  [][Applied("pressure") =>
       /\ lastEvent'.b > 0 => self' = Pressed(self, lastEvent'.a, lastEvent'.b)
       /\ lastEvent'.b = 0 => self' = self
       /\ lastVoice' = lastVoice]_vars

\* C11 witness: the pressure event has set sounding voice 0, which holds its
\* note, and left alone sounding voice 1, which holds another note.
C11_Witness ==
  /\ lastEvent.kind = "pressure" /\ lastEvent.b = 50
  /\ self.voices[0].note = lastEvent.a /\ self.voices[0].velocity = 50
  /\ self.voices[1].note # lastEvent.a /\ self.voices[1].velocity = 100
  /\ self.voice_allocation_index = 2

\* C11 witness: a pressure event with byte 0 for the note of a sounding voice
\* has left the voice sounding.
C11_ZeroWitness ==
  /\ lastEvent.kind = "pressure" /\ lastEvent.b = 0
  /\ self.voices[0].note = lastEvent.a /\ self.voices[0].velocity = 100

\* ------------------------------------------------------------------------
\* Specification: the voice pool under note, bend and bend-range events
\* ------------------------------------------------------------------------
BendNotes == {0, 60}
\* bender messages <<msg[1], msg[2]>>: centre, full sharp, full flat
BendMessages == { <<0, 64>>, <<127, 127>>, <<0, 0>> }
BendRanges == {0, 2}

BendEvents ==
  { Event(0, "note_on", n, 100, <<>>) : n \in BendNotes }
  \cup { Event(0, "bender", m[1], m[2], <<>>) : m \in BendMessages }
  \cup { Event(0, "bendrange", r, 0, <<>>) : r \in BendRanges }

RunBeginBend == \E n \in VoiceBlocks : RunBegin(n)
RunEventBend == \E ev \in BendEvents : nevents < MaxEvents /\ RunEvent(ev)

NextBend ==
  \/ RunBeginBend
  \/ RunEventBend
  \/ RunEnd

SpecBend == Init /\ [][NextBend]_vars

\* the frequency a voice holding the note is due under the current bend and
\* range
BentFrequency(s, note) ==
  note_number_to_frequency(note * BEND_UNIT + s.bend * s.bendrange)

\* C12: every sounding voice, whatever its note number, has the frequency of
\* (its note + bend x bend range) for the current bend and range.
C12_BendAppliesToSounding ==
  \A v \in Voices :
    self.voices[v].velocity > 0 =>
      self.voices[v].frequency = BentFrequency(self, self.voices[v].note)

\* ------------------------------------------------------------------------
\* Specification: polyphony changes while a patch renders
\* ------------------------------------------------------------------------
\* values of the polyphony property: below, at and above the clamp bounds
PolyValues == {-1, 0, 1, 3, MAX_VOICE_COUNT, MAX_VOICE_COUNT + 1}
PolyBlocks == {2}
PolyTimes == {0, 1}

PolyEvents ==
  { Event(t, "polyphony", n, 0, <<>>) : t \in PolyTimes, n \in PolyValues }
  \cup { Event(t, "note_on", 60, 100, <<>>) : t \in PolyTimes }

RunBeginPoly == \E n \in PolyBlocks : RunBegin(n)
RunEventPoly == \E ev \in PolyEvents : nevents < MaxEvents /\ RunEvent(ev)

NextPoly ==
  \/ RunBeginPoly
  \/ RunEventPoly
  \/ RunEnd

SpecPoly == InitRender /\ [][NextPoly]_vars

\* clamp(n, 1, MAX_VOICE_COUNT)
Clamped(n) ==
  LET low == IF n > 1 THEN n ELSE 1
  IN  IF low < MAX_VOICE_COUNT THEN low ELSE MAX_VOICE_COUNT

\* the sample steps voices 0 .. count-1 once each, in order, with the
\* frequency and velocity of instance s
StepsVoices(sample, s, count) ==
  /\ Len(sample.calls) = count
  /\ \A j \in 1 .. count :
        sample.calls[j] =
          <<j - 1, s.voices[j - 1].frequency, s.voices[j - 1].velocity>>

\* C13: for every stored polyphony the active voice count is
\* clamp(polyphony, 1, 64); each sample a loaded patch renders steps exactly
\* the voices 0 .. count-1 once each; allocate_voice returns an index below
\* the count; a polyphony event changes no voice record.
C13_ActiveVoiceCount ==
  /\ [](eventsOk =>
          \A k \in DOMAIN outLog :
            outLog[k].sample # Silence =>
              StepsVoices(outLog[k].sample, ref[outLog[k].pos],
                          Clamped(ref[outLog[k].pos].polyphony)))
  /\ [][Applied("note_on") =>
          /\ lastVoice' >= 0
          /\ lastVoice' < Clamped(self.polyphony)]_vars
  /\ [][Applied("polyphony") =>
          /\ self'.polyphony = lastEvent'.a
          /\ self'.voices = self.voices
          /\ self'.voice_allocation_index = self.voice_allocation_index]_vars

\* C13 witness: in one block the polyphony was set to 65 at frame 0 and to
\* -1 at frame 1; sample 0 stepped 64 voices, sample 1 stepped voice 0 only.
C13_Witness ==
  /\ pc = "idle" /\ eventsOk /\ Len(outLog) = 2
  /\ ref[0].polyphony = MAX_VOICE_COUNT + 1 /\ self.polyphony = -1
  /\ Len(outLog[1].sample.calls) = MAX_VOICE_COUNT
  /\ Len(outLog[2].sample.calls) = 1
  /\ self.voices[0].velocity > 0

\* ------------------------------------------------------------------------
\* Specification: configuration events with values in and out of range
\* ------------------------------------------------------------------------
\* controller numbers msg[1]: the ends of the array and beyond it
ConfigControllers == {0, CV_COUNT - 1, CV_COUNT, 127}
\* bodies of the cv property: indices below, inside and above the array
ConfigTuples ==
  { << <<"int", -1>>, <<"float", 10>>, <<"int", CV_COUNT - 1>>, <<"float", 20>> >>,
    << <<"float", 30>>, <<"int", CV_COUNT>>, <<"float", 40>>,
       <<"int", 0>>, <<"float", 50>> >> }
\* values of the bendrange property: the scale of the GUI offers 0 .. 24
ConfigBendRanges == {-1, 2, 25}

ConfigEvents ==
  { Event(0, "controller", c, 64, <<>>) : c \in ConfigControllers }
  \cup { Event(0, "cv", 0, 0, tp) : tp \in ConfigTuples }
  \cup { Event(0, "bendrange", r, 0, <<>>) : r \in ConfigBendRanges }
  \cup { Event(0, "bender", 127, 127, <<>>) }

RunBeginConfig == \E n \in VoiceBlocks : RunBegin(n)
RunEventConfig == \E ev \in ConfigEvents : nevents < MaxEvents /\ RunEvent(ev)

NextConfig ==
  \/ RunBeginConfig
  \/ RunEventConfig
  \/ RunEnd

SpecConfig == Init /\ [][NextConfig]_vars

\* the range of the bend-range scale of the GUI
BENDRANGE_MIN == 0
BENDRANGE_MAX == 24

\* the slot of the array nearest to an index
NearestSlot(i) == IF i < 0 THEN 0 ELSE IF i >= CV_COUNT THEN CV_COUNT - 1 ELSE i

\* the index in force at position k of a tuple: that of the last integer
\* before k, 0 when there is none
IndexAt(tuple, k) ==
  LET ints == { j \in 1 .. (k - 1) : tuple[j][1] = "int" }
  IN  IF ints = {} THEN 0
      ELSE tuple[CHOOSE j \in ints : \A i \in ints : i <= j][2]

\* the positions of the floats of a tuple that are addressed to slot i
FloatsFor(tuple, i) ==
  { k \in DOMAIN tuple : tuple[k][1] = "float" /\ IndexAt(tuple, k) = i }

\* the control values after a bulk message in which every in-range entry is
\* applied (the last one for a slot wins) and every other entry is dropped
BulkApplied(cv, tuple) ==
  [i \in Controls |->
     IF FloatsFor(tuple, i) = {} THEN cv[i]
     ELSE tuple[CHOOSE k \in FloatsFor(tuple, i) :
                  \A j \in FloatsFor(tuple, i) : j <= k][2]]

\* C14 as stated: an out-of-range controller or bulk index is applied to the
\* nearest valid slot, and the bend range is stored clamped into its bounds;
\* nothing is written outside the control-value array.
C14_ClampedNeverRejected ==
  /\ [](DOMAIN self.cv = Controls)
  /\ [](self.bendrange >= BENDRANGE_MIN /\ self.bendrange <= BENDRANGE_MAX)
  /\ [][Applied("controller") =>
          self'.cv[NearestSlot(lastEvent'.a)] = lastEvent'.b]_vars
  /\ [][Applied("cv") =>
          \A k \in DOMAIN lastEvent'.tuple :
            lastEvent'.tuple[k][1] = "float" =>
              \E j \in FloatsFor(lastEvent'.tuple, IndexAt(lastEvent'.tuple, k)) :
                self'.cv[NearestSlot(IndexAt(lastEvent'.tuple, k))]
                  = lastEvent'.tuple[j][2]]_vars

\* C14 amended: an out-of-range controller event changes nothing, the
\* out-of-range entries of a bulk message are dropped while its in-range
\* entries are applied, a bend range is stored as given; nothing is written
\* outside the control-value array.
C14_DroppedNeverWrittenOutside ==
  /\ [](DOMAIN self.cv = Controls)
  /\ [][Applied("controller") =>
          IF lastEvent'.a \in Controls
          THEN /\ self'.cv = [self.cv EXCEPT ![lastEvent'.a] = lastEvent'.b]
               /\ self'.send_cv_change_to_gui
          ELSE self' = self]_vars
  /\ [][Applied("cv") =>
          self' = [self EXCEPT !.cv = BulkApplied(self.cv, lastEvent'.tuple)]]_vars
  /\ [][Applied("bendrange") =>
          /\ self'.bendrange = lastEvent'.a
          /\ self'.bend_scaled = self.bend * lastEvent'.a
          /\ self'.cv = self.cv]_vars

\* C14 witness: controller 127 arrived after controller 119 and changed
\* nothing; a bulk message has set slots 0 and 119 and the bend range is 25.
C14_Witness ==
  /\ lastEvent.kind = "controller" /\ lastEvent.a = 127
  /\ self.cv[0] = 50 /\ self.cv[CV_COUNT - 1] = 20
  /\ \A i \in 1 .. (CV_COUNT - 2) : self.cv[i] = 0
  /\ self.bendrange = 25 /\ self.bend_scaled = 25 * BEND_UNIT
  /\ self.set_cv_count = 0

\* ------------------------------------------------------------------------
\* Specification: an envelope stepped from construction, its calls recorded
\* ------------------------------------------------------------------------
\* what the member last of a trigger can hold after construction: a level
\* at or below the threshold 0.0, or one above it
Indeterminate == {0, LEVEL_UNIT}

\* excitations: a velocity of 0.0 and one of 1.0
Excitations == {0, LEVEL_UNIT}

\* the envelopes that are built: class, the constructor's arguments in step
\* times and levels, and the range given to setRange
EnvelopeConfigs ==
  { \* ADSR::test: ADSR(2 * STEP_TIME, 2 * STEP_TIME, 1.0, 2 * STEP_TIME) on [0, 2]
    [kind |-> "ADSR", a |-> 2, d |-> 2, s |-> LEVEL_UNIT, r |-> 2,
     vmin |-> 0, vmax |-> 2 * LEVEL_UNIT],
    \* the same shape on the range [1, 3]
    [kind |-> "ADSR", a |-> 2, d |-> 2, s |-> 2 * LEVEL_UNIT, r |-> 2,
     vmin |-> LEVEL_UNIT, vmax |-> 3 * LEVEL_UNIT],
    \* a sustain level equal to the bottom of the range
    [kind |-> "ADSR", a |-> 2, d |-> 2, s |-> 0, r |-> 2,
     vmin |-> 0, vmax |-> 2 * LEVEL_UNIT],
    \* ADSR(4 * STEP_TIME, 4 * STEP_TIME, 0.5, 4 * STEP_TIME) on [0, 2]
    [kind |-> "ADSR", a |-> 4, d |-> 4, s |-> LEVEL_UNIT \div 2, r |-> 4,
     vmin |-> 0, vmax |-> 2 * LEVEL_UNIT],
    \* the default envelope: ADSR() on its default range [0, 1]
    [kind |-> "ADSR", a |-> 0, d |-> 0, s |-> LEVEL_UNIT, r |-> 0,
     vmin |-> 0, vmax |-> LEVEL_UNIT],
    \* AD::test: AD(2 * STEP_TIME, 2 * STEP_TIME) on [0, 2]
    [kind |-> "AD", a |-> 2, d |-> 2, s |-> LEVEL_UNIT, r |-> 0,
     vmin |-> 0, vmax |-> 2 * LEVEL_UNIT],
    \* the same on the range [1, 3]
    [kind |-> "AD", a |-> 2, d |-> 2, s |-> LEVEL_UNIT, r |-> 0,
     vmin |-> LEVEL_UNIT, vmax |-> 3 * LEVEL_UNIT],
    \* the range [-1, 1] of a Generator
    [kind |-> "ADSR", a |-> 2, d |-> 2, s |-> 0, r |-> 2,
     vmin |-> -LEVEL_UNIT, vmax |-> LEVEL_UNIT] }

\* the object after its constructor and setRange
Built(c, attackLast, releaseLast) ==
  setRange(WithTimes(Envelope(c.kind, attackLast, releaseLast),
                     c.a, c.d, c.s, c.r),
           c.vmin, c.vmax)

\* whether env was built as c
BuiltAs(c) ==
  /\ env.kind = c.kind /\ env.attack = c.a /\ env.decay = c.d
  /\ env.sustain = c.s /\ env.release = c.r
  /\ env.minValue = c.vmin /\ env.maxValue = c.vmax

InitEnvelope ==
  /\ EngineConstructed(Csynth0, <<>>)
  /\ \E c \in EnvelopeConfigs : \E al \in Indeterminate :
       \E rl \in (IF c.kind = "ADSR" THEN Indeterminate ELSE {0}) :
         env = Built(c, al, rl)
  /\ envObs = EnvObs0
  /\ trig = [kind |-> "Rise", threshold |-> 0, last |-> 0]
  /\ trigObs = TrigObs0
  /\ DspAtRest

StepRecorded == \E v \in Excitations : StepEnvelope(v, TRUE)

NextEnvelope == StepRecorded

SpecEnvelope == InitEnvelope /\ [][NextEnvelope]_vars

\* the arguments and the results of the recorded calls
Inputs == [i \in DOMAIN envObs.log |-> envObs.log[i].in]
Outputs == [i \in DOMAIN envObs.log |-> envObs.log[i].out]

\* seq is an initial part of whole
IsPrefix(seq, whole) ==
  /\ Len(seq) <= Len(whole)
  /\ \A i \in DOMAIN seq : seq[i] = whole[i]

\* the ADSR of the scenario: attack, decay, release 0.1 s = 4 steps of
\* 0.025 s, sustain 0.5, range [0, 2]
ScenarioADSR ==
  [kind |-> "ADSR", a |-> 4, d |-> 4, s |-> LEVEL_UNIT \div 2, r |-> 4,
   vmin |-> 0, vmax |-> 2 * LEVEL_UNIT]

\* the ADSR of ADSR::test
TestADSR ==
  [kind |-> "ADSR", a |-> 2, d |-> 2, s |-> LEVEL_UNIT, r |-> 2,
   vmin |-> 0, vmax |-> 2 * LEVEL_UNIT]

\* the values 1.0, 2.0, 1.5, 1.0, 0.5, 0.0
ScenarioValues ==
  << LEVEL_UNIT, 2 * LEVEL_UNIT, (3 * LEVEL_UNIT) \div 2, LEVEL_UNIT,
     LEVEL_UNIT \div 2, 0 >>

\* C15 as stated: ADSR(0.1, 0.1, 0.5, 0.1) on [0, 2], stepped from its
\* initial state with step time 0.025 s and excitations 1,1,1,1,0,0, returns
\* 1.0, 2.0, 1.5, 1.0, 0.5, 0.0.
C15_ScenarioAsStated ==
  (BuiltAs(ScenarioADSR)
     /\ IsPrefix(Inputs, << LEVEL_UNIT, LEVEL_UNIT, LEVEL_UNIT, LEVEL_UNIT, 0, 0 >>))
    => IsPrefix(Outputs, ScenarioValues)

\* C15 amended: the ADSR of the library's test (attack, decay and release
\* of 2 step times, sustain 1.0, range [0, 2]), stepped from its initial
\* state with excitations 0,1,1,1,1,0,0, returns 0.0 and then
\* 1.0, 2.0, 1.5, 1.0, 0.5, 0.0.
C15_Scenario ==
  (BuiltAs(TestADSR)
     /\ IsPrefix(Inputs,
                 << 0, LEVEL_UNIT, LEVEL_UNIT, LEVEL_UNIT, LEVEL_UNIT, 0, 0 >>))
    => IsPrefix(Outputs, <<0>> \o ScenarioValues)

\* C15 witness: the seven steps of the amended scenario were made.
C15_Witness ==
  /\ BuiltAs(TestADSR)
  /\ Inputs = << 0, LEVEL_UNIT, LEVEL_UNIT, LEVEL_UNIT, LEVEL_UNIT, 0, 0 >>
  /\ Outputs = <<0>> \o ScenarioValues
  /\ env.phase = ReleasePhase

\* the number of excited steps among the recorded ones
Excited == Cardinality({ i \in DOMAIN envObs.log : envObs.log[i].in > 0 })

\* the recorded excitations are one note cycle of envelope c: an idle step,
\* then the note held, then (when it was held through attack and decay) the
\* note released
IsNoteCycle(c) ==
  /\ Len(envObs.log) >= 1
  /\ \A i \in DOMAIN envObs.log :
        envObs.log[i].in > 0 <=> (2 <= i /\ i <= 1 + Excited)
  /\ Len(envObs.log) > 1 + Excited => (Excited = 0 \/ Excited >= c.a + c.d)

\* the envelope of the diagram: the value due at step i of a note cycle
Ideal(c, i) ==
  LET j == i - 1
      q == i - 1 - Excited
  IN  IF i = 1 \/ Excited = 0 THEN c.vmin
      ELSE IF j <= c.a THEN c.vmin + j * Slope(c.a, c.vmax - c.vmin)
      ELSE IF j <= c.a + c.d
           THEN c.vmax - (j - c.a) *
                  Slope(c.d, c.vmax - (IF c.kind = "ADSR" THEN c.s ELSE c.vmin))
      ELSE IF j <= Excited THEN (IF c.kind = "ADSR" THEN c.s ELSE c.vmin)
      ELSE IF c.kind = "ADSR" /\ q <= c.r
           THEN c.s - q * Slope(c.r, c.s - c.vmin)
      ELSE c.vmin

\* C16: an envelope whose attack, decay and release take k steps each rises
\* linearly from minValue to maxValue in k steps, falls linearly to the
\* sustain level (AD: to minValue), holds it, and falls linearly to minValue
\* after the release; and an excitation sequence that leaves the envelope
\* idle, given a second time, produces the same outputs again.
C16_NoteCycle ==
  /\ \A c \in EnvelopeConfigs :
        (BuiltAs(c) /\ c.a > 0 /\ c.d = c.a
           /\ (c.kind = "ADSR" => c.r = c.a) /\ IsNoteCycle(c))
          => \A i \in DOMAIN envObs.log : Outputs[i] = Ideal(c, i)
  /\ \A n \in DOMAIN envObs.log : \A i \in 1 .. n :
        ( /\ n + i <= Len(envObs.log)
          /\ envObs.log[n].phase = InitialPhase
          /\ \A j \in 1 .. i : Inputs[n + j] = Inputs[j] )
          => Outputs[n + i] = Outputs[i]

\* ------------------------------------------------------------------------
\* Specification: an envelope whose members are changed between steps
\* ------------------------------------------------------------------------
\* durations in step times, levels and ranges given to the envelope
ChangeTimes == {0, 2}
ChangeLevels == {0, 3 * LEVEL_UNIT}
ChangeRanges ==
  { <<0, 2 * LEVEL_UNIT>>, <<LEVEL_UNIT, LEVEL_UNIT>>, <<-LEVEL_UNIT, LEVEL_UNIT>> }
ChangeKinds == {"ADSR", "AD"}

InitEnvelopeChange ==
  /\ EngineConstructed(Csynth0, <<>>)
  /\ \E k \in ChangeKinds : \E al \in Indeterminate :
       \E rl \in (IF k = "ADSR" THEN Indeterminate ELSE {0}) :
         env = Envelope(k, al, rl)
  /\ envObs = EnvObs0
  /\ trig = [kind |-> "Rise", threshold |-> 0, last |-> 0]
  /\ trigObs = TrigObs0
  /\ DspAtRest

StepUnrecorded == \E v \in Excitations : StepEnvelope(v, FALSE)
SetAttack == \E x \in ChangeTimes : SetEnvelope("attack", x)
SetDecay == \E x \in ChangeTimes : SetEnvelope("decay", x)
SetSustain == \E x \in ChangeLevels : SetEnvelope("sustain", x)
SetRelease == \E x \in ChangeTimes : SetEnvelope("release", x)
SetRange == \E r \in ChangeRanges : SetEnvelopeRange(r[1], r[2])

NextEnvelopeChange ==
  \/ StepUnrecorded
  \/ SetAttack
  \/ SetDecay
  \/ SetSustain
  \/ SetRelease
  \/ SetRange

SpecEnvelopeChange == InitEnvelopeChange /\ [][NextEnvelopeChange]_vars

\* C17: every value step returns lies in [minValue, maxValue] of the moment
\* of the call, and the phase is one of the five (for an AD: Idle, Attack or
\* Decay), whatever the excitations and the changes of attack, decay,
\* sustain, release and range between the steps.
C17_ValueInRange ==
  /\ [][envObs' # envObs =>
          /\ envObs'.out >= env'.minValue
          /\ envObs'.out <= env'.maxValue]_vars
  /\ [](env.phase \in {InitialPhase, AttackPhase, DecayPhase, SustainPhase,
                       ReleasePhase})
  /\ [](env.kind = "AD" =>
          env.phase \in {InitialPhase, AttackPhase, DecayPhase})

\* C17 witness: the sustain level 3.0 lies above the range [0, 2]; the
\* envelope holds in Sustain and returned the top of the range.
C17_Witness ==
  /\ envObs.stepped /\ env.phase = SustainPhase
  /\ env.sustain = 3 * LEVEL_UNIT /\ env.maxValue = 2 * LEVEL_UNIT
  /\ envObs.out = 2 * LEVEL_UNIT

\* the distance of two levels
Distance(x, y) == IF x >= y THEN x - y ELSE y - x

\* this step gave the envelope an excitation above the threshold 0.0 after
\* one at or below it
Rise == envObs.stepped /\ envObs' # envObs /\ envObs.in <= 0 /\ envObs'.in > 0

\* C18: a rise of the excitation through the threshold puts the envelope
\* into Attack on that step, whatever its phase was, and with attack > 0 the
\* value returned differs from the one returned before by at most one attack
\* increment (STEP_TIME / attack) x (maxValue - minValue).
C18_RetriggerContinuous ==
  [][Rise =>
       /\ envObs'.attacked
       /\ env.attack > 0 =>
            Distance(envObs'.out, envObs.out)
              <= Slope(env.attack, env.maxValue - env.minValue)]_vars

\* ------------------------------------------------------------------------
\* Specification: an envelope that is stepped for ever, once per sample
\* ------------------------------------------------------------------------
NextEnvelopeFair == StepUnrecorded

SpecEnvelopeFair ==
  InitEnvelope /\ [][NextEnvelopeFair]_vars /\ WF_vars(NextEnvelopeFair)

\* the envelope is idle and returned the bottom of its range
IdleAtMin == env.phase = InitialPhase /\ envObs.out = env.minValue

\* C19: once the excitation is held at or below the threshold for good, an
\* ADSR with release > 0 comes to be idle at minValue after finitely many
\* steps, and stays so.
C19_ReleaseReachesIdle ==
  <>[](envObs.stepped /\ envObs.in <= 0)
    => <>[]((env.kind = "ADSR" /\ env.release > 0) => IdleAtMin)

\* ------------------------------------------------------------------------
\* Specification: a trigger stepped from construction
\* ------------------------------------------------------------------------
\* inputs of a trigger, and the thresholds it is given
TriggerInputs ==
  {0, LEVEL_UNIT \div 4, LEVEL_UNIT \div 2, (3 * LEVEL_UNIT) \div 4, LEVEL_UNIT}
Thresholds == {0, LEVEL_UNIT \div 2, (3 * LEVEL_UNIT) \div 4}
TriggerKinds == {"Rise", "Fall"}

\* RiseTrigger t; or FallTrigger t; the member last holds any level
InitTrigger ==
  /\ EngineConstructed(Csynth0, <<>>)
  /\ env = Envelope("ADSR", 0, 0)
  /\ envObs = EnvObs0
  /\ \E k \in TriggerKinds : \E l \in TriggerInputs :
       trig = [kind |-> k, threshold |-> 0, last |-> l]
  /\ trigObs = TrigObs0
  /\ DspAtRest

StepTriggerAny == \E v \in TriggerInputs : StepTrigger(v)
SetThresholdAny == \E x \in Thresholds : SetThreshold(x)

NextTrigger ==
  \/ StepTriggerAny
  \/ SetThresholdAny

SpecTrigger == InitTrigger /\ [][NextTrigger]_vars

\* the transition a trigger of the kind watches for, from input before to
\* input now, at threshold th
Crosses(kind, th, before, now) ==
  IF kind = "Rise" THEN before <= th /\ now > th
  ELSE before > th /\ now <= th

\* this step of the specification is a call of t.step
TriggerStepped == trigObs'.stepped /\ trig'.threshold = trig.threshold

\* C20: a RiseTrigger runs its action exactly on the steps whose previous
\* input was <= threshold and whose input is > threshold, a FallTrigger
\* exactly on those whose previous input was > threshold and whose input is
\* <= threshold; the action is given the input, and on every other step no
\* action is run.
C20_TriggerExactly ==
  [][TriggerStepped =>
       /\ trigObs'.fired <=>
            ( /\ trigObs.stepped
              /\ Crosses(trig.kind, trig.threshold, trigObs.in, trigObs'.in) )
       /\ trigObs'.fired => trigObs'.arg = trigObs'.in]_vars

\* ------------------------------------------------------------------------
\* Specification: a generator whose members are changed between steps
\* ------------------------------------------------------------------------
\* the shapes given to an Interpolated oscillator: that of its test, a
\* single point, and a plateau
Shapes ==
  { << [phase |-> 2, value |-> VALUE_UNIT], [phase |-> 4, value |-> VALUE_UNIT],
       [phase |-> 4, value |-> -VALUE_UNIT],
       [phase |-> 6, value |-> -VALUE_UNIT] >>,
    << [phase |-> 4, value |-> VALUE_UNIT] >>,
    << [phase |-> 2, value |-> VALUE_UNIT],
       [phase |-> 4, value |-> VALUE_UNIT] >> }

\* frequencies: those an oscillator is given directly, and the negative
\* sum a frequency modulator gives its carrier; an Additive oscillator is
\* given those with a whole period, an Interpolated one no negative one
Frequencies(kind) ==
  IF kind = "Additive" THEN {0, 1, 2, 4}
  ELSE IF kind = "Interpolated" THEN {0, 1, 2, 3}
  ELSE {-1, 0, 1, 3, PHASE_UNIT + 1}
GeneratorRanges ==
  { <<-VALUE_UNIT, VALUE_UNIT>>, <<0, 2 * VALUE_UNIT>>,
    <<VALUE_UNIT, 3 * VALUE_UNIT>> }
Widths == {PHASE_UNIT \div 4, PHASE_UNIT \div 2}
Amplitudes == {0, AMP_UNIT}
\* what the unset members of an Additive oscillator may hold
UnsetFrequencies == {0, 1}
UnsetSamples == {0, PHASE_UNIT}

\* Sine g; Pulse g; ... Interpolated g; g.shape(...); Additive g(2);
\* WhiteNoise g; ...
InitGenerator ==
  /\ EngineConstructed(Csynth0, <<>>)
  /\ env = Envelope("ADSR", 0, 0)
  /\ envObs = EnvObs0
  /\ trig = [kind |-> "Rise", threshold |-> 0, last |-> 0]
  /\ trigObs = TrigObs0
  /\ \/ \E k \in {"DC", "WhiteNoise", "BrownNoise", "Sine", "Pulse", "Saw",
                    "Triangle"} : gen = Generator(k, 0, 0, 0)
     \/ \E oct \in Randoms : gen = Generator("PinkNoise", oct, 0, 0)
     \/ \E ps \in Shapes : gen = shape(Generator("Interpolated", 0, 0, 0), ps)
     \/ \E wtf \in UnsetFrequencies : \E wts \in UnsetSamples :
          gen = Generator("Additive", 0, wtf, wts)
  /\ genObs = GenObs0
  /\ SplitterAtRest /\ DelayAtRest /\ ProcessorAtRest

StepUnlogged == StepGenerator(FALSE)
ChangeFrequency ==
  /\ gen.kind \in OscillatorKinds
  /\ \E f \in Frequencies(gen.kind) : SetFrequency(f)
ChangeRange == \E r \in GeneratorRanges : SetGeneratorRange(r[1], r[2])
ChangeWidth == \E w \in Widths : SetWidth(w)
ChangeShape == \E ps \in Shapes : SetShape(ps)
ChangeAmplitude ==
  \E i \in 1 .. Len(Partials0) : \E a \in Amplitudes : SetAmplitude(i, a)

NextGenerator ==
  \/ StepUnlogged
  \/ ChangeFrequency
  \/ ChangeRange
  \/ ChangeWidth
  \/ ChangeShape
  \/ ChangeAmplitude

SpecGenerator == InitGenerator /\ [][NextGenerator]_vars

\* C21: after every step of every oscillator, for any sequence of step
\* calls and frequency settings, the phase lies in [0.0, 1.0).
C21_PhaseInUnitInterval ==
  (genObs.stepped /\ gen.kind \in OscillatorKinds)
    => (gen.phase >= 0 /\ gen.phase < PHASE_UNIT)

\* this step of the specification is a call of gen.step that returned
Returned == genObs' # genObs /\ ~genObs'.failed

\* C23: every value step returns lies in [minValue, maxValue], for every
\* generator and any sequence of changes of frequency, width, shape,
\* partial amplitudes and range between the calls.
C23_OutputInRange ==
  [][Returned =>
       (genObs'.out >= gen.minValue /\ genObs'.out <= gen.maxValue)]_vars

\* ------------------------------------------------------------------------
\* Specification: an oscillator stepped at a constant frequency
\* ------------------------------------------------------------------------
\* the frequencies whose period is a whole number of steps
WholePeriodFrequencies == { f \in 1 .. PHASE_UNIT : PHASE_UNIT % f = 0 }

\* Saw g(f); g.setRange(vmin, vmax); and likewise for the other oscillators
InitOscillator ==
  /\ EngineConstructed(Csynth0, <<>>)
  /\ env = Envelope("ADSR", 0, 0)
  /\ envObs = EnvObs0
  /\ trig = [kind |-> "Rise", threshold |-> 0, last |-> 0]
  /\ trigObs = TrigObs0
  /\ \E f \in WholePeriodFrequencies : \E r \in GeneratorRanges :
       \/ \E k \in {"Sine", "Pulse", "Saw", "Triangle"} :
            gen = setRange([Generator(k, 0, 0, 0) EXCEPT !.frequency = f],
                           r[1], r[2])
       \/ \E ps \in Shapes :
            gen = setRange([shape(Generator("Interpolated", 0, 0, 0), ps)
                              EXCEPT !.frequency = f], r[1], r[2])
       \/ \E wtf \in UnsetFrequencies : \E wts \in UnsetSamples :
            gen = setRange([Generator("Additive", 0, wtf, wts)
                              EXCEPT !.frequency = f], r[1], r[2])
  /\ genObs = GenObs0
  /\ SplitterAtRest /\ DelayAtRest /\ ProcessorAtRest

StepLogged == StepGenerator(TRUE)

NextOscillator == StepLogged

SpecOscillator == InitOscillator /\ [][NextOscillator]_vars

\* the period of the oscillator, in steps
Period == PHASE_UNIT \div gen.frequency

\* the phase before recorded step i + Period is that before step i, and the
\* phase now is that before the step Period steps ago
PhaseRecurs ==
  /\ \A i \in 1 .. Len(genObs.log) :
       i + Period <= Len(genObs.log) =>
         genObs.log[i + Period].before = genObs.log[i].before
  /\ Len(genObs.log) >= Period =>
       gen.phase = genObs.log[Len(genObs.log) - Period + 1].before

\* recorded sample i + Period equals sample i
OutputRecurs ==
  \A i \in 1 .. Len(genObs.log) :
    i + Period <= Len(genObs.log) =>
      genObs.log[i + Period].out = genObs.log[i].out

\* C22 as stated: for any oscillator at a constant frequency whose period
\* is a whole number k of steps, the phase after k steps equals the phase
\* before them and sample i + k equals sample i.
C22_PeriodicAnyOscillator == ~genObs.failed => (PhaseRecurs /\ OutputRecurs)

\* C22 amended: the phase after k steps equals the phase before them for
\* every oscillator, and sample i + k equals sample i for Sine, Pulse, Saw,
\* Triangle and Additive.
C22_Periodic ==
  ~genObs.failed =>
    (PhaseRecurs /\ (gen.kind # "Interpolated" => OutputRecurs))

\* C22 witness: a Triangle oscillator with a period of 4 steps has returned
\* more than one period of samples, and so has an Additive oscillator.
C22_Witness ==
  /\ gen.kind \in {"Triangle", "Additive"}
  /\ Period = 4
  /\ Len(genObs.log) > Period
  /\ ~genObs.failed
  /\ genObs.log[2].out # genObs.log[1].out

\* ------------------------------------------------------------------------
\* Specification: a splitter whose outputs are stepped in any order
\* ------------------------------------------------------------------------
OutputCounts == {1, 2, 3}

\* Splitter split(&source, count);
InitSplitter ==
  /\ EngineConstructed(Csynth0, <<>>)
  /\ env = Envelope("ADSR", 0, 0)
  /\ envObs = EnvObs0
  /\ trig = [kind |-> "Rise", threshold |-> 0, last |-> 0]
  /\ trigObs = TrigObs0
  /\ GeneratorAtRest /\ DelayAtRest /\ ProcessorAtRest
  /\ \E count \in OutputCounts : split = Splitter(count)
  /\ splitObs = SplitObs0

StepAnyOutput == \E o \in OutputsOf(split) : StepOutput(o)

NextSplitter == StepAnyOutput

SpecSplitter == InitSplitter /\ [][NextSplitter]_vars

\* every output is stepped once per logical sample: an output is stepped
\* again only when all outputs have been stepped
StepOutputInTurn ==
  \E o \in OutputsOf(split) : o \notin splitObs.served /\ StepOutput(o)

NextSplitterInTurn == StepOutputInTurn

SpecSplitterInTurn == InitSplitter /\ [][NextSplitterInTurn]_vars

\* C24: when each output is stepped exactly once per logical sample, in any
\* order, the source is stepped exactly once per logical sample and all
\* outputs return that same sample.
C24_OncePerSample ==
  splitObs.stepped =>
    /\ split.pulled = splitObs.rounds + (IF splitObs.served = {} THEN 0 ELSE 1)
    /\ splitObs.got = {split.pulled}

\* C24 witness: each of three outputs was stepped once for each of two
\* samples, output 0 last.
C24_Witness ==
  /\ split.outputCount = 3
  /\ splitObs.rounds = 2
  /\ splitObs.served = {}
  /\ splitObs.last = 0
  /\ split.pulled = 2

\* C25 as stated: the source is stepped only when every output has returned
\* the sample pulled before.
C25_PullsWhenAllServed ==
  [][split'.pulled # split.pulled =>
       (split.pulled = 0 \/ splitObs.delivered = OutputsOf(split))]_vars

\* C25 amended: the source is stepped exactly when the output being stepped
\* has itself returned the sample pulled before (or none was pulled yet);
\* an output that has not returned it is given it without a step of the
\* source.
C25_PullsWhenOutputServed ==
  [][splitObs' # splitObs =>
       /\ split'.pulled # split.pulled
            <=> (split.pulled = 0 \/ splitObs'.last \in splitObs.delivered)
       /\ splitObs'.out = split'.pulled]_vars

\* C25 witness: of three outputs, one was stepped a second time before
\* another had returned the first sample; the late output then returned the
\* second sample.
C25_Witness ==
  /\ split.outputCount = 3
  /\ splitObs.skipped
  /\ split.pulled = 2
  /\ splitObs.last = 2
  /\ splitObs.out = 2
  /\ splitObs.delivered = {1, 2}

(***************************************************************************)
(* The delay line as a FIFO: delay lines of several lengths are stepped    *)
(* with every sequence of inputs.                                          *)
(***************************************************************************)
InSamples == SampleFlags("SampleUnitSamples", "SampleModeInterpolated",
                            "SampleOperationAdd")
\* the lengths and flags handed to the constructor
DelayLengths ==
  { \* Delay::test: Delay(&gen, 2.0 * STEP_TIME)
    [length |-> 2, flags |-> SampleFlags("SampleUnitSeconds",
       "SampleModeInterpolated", "SampleOperationAdd")],
    [length |-> -LOCATION_UNIT, flags |-> InSamples],
    [length |-> 0, flags |-> InSamples],
    [length |-> LOCATION_UNIT, flags |-> InSamples],
    [length |-> 3 * LOCATION_UNIT, flags |-> InSamples],
    \* one and a half samples, and two and a half samples aligned to three
    [length |-> LOCATION_UNIT + LOCATION_UNIT \div 2, flags |-> InSamples],
    [length |-> 2 * LOCATION_UNIT + LOCATION_UNIT \div 2,
     flags |-> SampleFlags("SampleUnitSamples", "SampleModeAligned",
                           "SampleOperationAdd")] }
DelayInputs == {0, SAMPLE_UNIT, -SAMPLE_UNIT}
\* feedback is off or full; it stays off where the delay is not whole
Feedbacks(d) == IF d.remainder = 0 THEN {0, FEEDBACK_UNIT} ELSE {0}

InitDelay ==
  /\ EngineConstructed(Csynth0, <<>>)
  /\ env = Envelope("ADSR", 0, 0)
  /\ envObs = EnvObs0
  /\ trig = [kind |-> "Rise", threshold |-> 0, last |-> 0]
  /\ trigObs = TrigObs0
  /\ GeneratorAtRest /\ SplitterAtRest /\ ProcessorAtRest
  /\ \E c \in DelayLengths :
       /\ \E f \in Feedbacks(Delay(c.length, c.flags)) :
            delay = [Delay(c.length, c.flags) EXCEPT !.feedback = f]
       /\ delayObs = [DelayObs0 EXCEPT !.made = c]
StepLoggedDelay == \E in \in DelayInputs : StepDelay(in, TRUE)
NextDelay == StepLoggedDelay
SpecDelay == InitDelay /\ [][NextDelay]_vars

\* the length the delay line was made with, in 1/POS_UNIT of a sample
MadeSamples ==
  LET given == IF delayObs.made.flags.unit = "SampleUnitSamples"
               THEN (delayObs.made.length * POS_UNIT) \div LOCATION_UNIT
               ELSE delayObs.made.length * POS_UNIT
  IN  IF delayObs.made.flags.mode = "SampleModeAligned" THEN round(given)
      ELSE given

\* C27: a delay line of a whole number n > 0 of samples with feedback 0
\* returns 0 on its first n steps and on step k > n the input of step
\* k - n; a delay line of non-positive length returns each input on the
\* same step.
C27_Fifo ==
  LET n == MadeSamples \div POS_UNIT
      log == delayObs.log
  IN  /\ (MadeSamples > 0 /\ MadeSamples % POS_UNIT = 0 /\ delay.feedback = 0)
           => \A k \in 1..Len(log) :
                log[k].out = IF k <= n THEN 0 ELSE log[k - n].in
      /\ MadeSamples <= 0
           => /\ delay.bufferLen = 0
              /\ \A k \in 1..Len(log) : log[k].out = log[k].in
C27_Witness ==
  /\ MadeSamples = 3 * POS_UNIT /\ delay.feedback = 0
  /\ Len(delayObs.log) = 5
  /\ delayObs.log[1].in = SAMPLE_UNIT /\ delayObs.log[2].in = -SAMPLE_UNIT
  /\ delayObs.log[4].out = SAMPLE_UNIT /\ delayObs.log[5].out = -SAMPLE_UNIT

(***************************************************************************)
(* Taps on the delay line: a delay line is stepped and tapped at locations *)
(* given in every unit and mode.                                           *)
(***************************************************************************)
\* the delay lines tapped; the first is as long as the one Delay::test
\* steps
TapLengths ==
  { [length |-> 2, flags |-> SampleFlags("SampleUnitSeconds",
       "SampleModeInterpolated", "SampleOperationAdd")],
    \* one and a half samples
    [length |-> LOCATION_UNIT + LOCATION_UNIT \div 2, flags |-> InSamples] }
\* locations: 0.0, one step time, 1.5 and -1.5
TapLocations ==
  {0, 1, LOCATION_UNIT + LOCATION_UNIT \div 2,
   -(LOCATION_UNIT + LOCATION_UNIT \div 2)}
TapValues == {0, SAMPLE_UNIT}
TapFlags ==
  {SampleFlags(u, m, o) : u \in SampleUnit, m \in SampleMode,
                          o \in SampleOperation}

InitDelayTap ==
  /\ EngineConstructed(Csynth0, <<>>)
  /\ env = Envelope("ADSR", 0, 0)
  /\ envObs = EnvObs0
  /\ trig = [kind |-> "Rise", threshold |-> 0, last |-> 0]
  /\ trigObs = TrigObs0
  /\ GeneratorAtRest /\ SplitterAtRest /\ ProcessorAtRest
  /\ \E c \in TapLengths :
       /\ delay = Delay(c.length, c.flags)
       /\ delayObs = [DelayObs0 EXCEPT !.made = c]
StepUnloggedDelay == \E in \in TapValues : StepDelay(in, FALSE)
TapInAny ==
  \E l \in TapLocations, v \in TapValues, f \in TapFlags : TapIn(l, v, f)
TapOutAny ==
  \E l \in TapLocations, f \in TapFlags :
    /\ f.operation = "SampleOperationAdd"
    /\ TapOut(l, f, TapValues)
NextDelayTap == StepUnloggedDelay \/ TapInAny \/ TapOutAny
SpecDelayTap == InitDelayTap /\ [][NextDelayTap]_vars

\* a tapOut that follows a tapIn at the same location, in the same unit,
\* both aligned and the tapIn setting its value
ReadsBack ==
  /\ delayObs.op = "tapIn" /\ delayObs'.op = "tapOut"
  /\ delayObs.flags.mode = "SampleModeAligned"
  /\ delayObs.flags.operation = "SampleOperationSet"
  /\ delayObs'.flags.mode = "SampleModeAligned"
  /\ delayObs'.flags.unit = delayObs.flags.unit
  /\ delayObs'.location = delayObs.location
  /\ delay.bufferLen > 0

\* C26: on a delay line with a buffer, tapOut called right after an
\* aligned tapIn that sets the value v at the same location returns v,
\* whatever the value, the location and its unit.
C26_TapRoundTrip ==
  [][ReadsBack => (~delayObs'.failed /\ delayObs'.out = delayObs.value)]_vars

\* C28: a location of t seconds resolves to the position of t / STEP_TIME
\* samples, and a phase p, clamped to [0, 1], to the position of
\* p x (length - 1) samples.
C28_UnitsAgree ==
  LET f == delayObs.flags
      inSamples == [f EXCEPT !.unit = "SampleUnitSamples"]
      p == IF delayObs.location > LOCATION_UNIT THEN LOCATION_UNIT
           ELSE IF delayObs.location < 0 THEN 0 ELSE delayObs.location
  IN  (delayObs.op \in {"tapIn", "tapOut"} /\ delay.bufferLen > 0)
        => /\ f.unit = "SampleUnitSeconds"
                => delayObs.sample =
                     sampleAtLocation(delay, delayObs.location * LOCATION_UNIT,
                                      inSamples)
           /\ f.unit = "SampleUnitPhase"
                => delayObs.sample =
                     sampleAtLocation(delay,
                       Quot(p * (delay.samples - POS_UNIT), POS_UNIT),
                       inSamples)

(***************************************************************************)
(* Processors without a source: every processor is made by its default     *)
(* constructor, given its parameters and stepped.                          *)
(***************************************************************************)
ProcessorRanges ==
  { [min |-> -VALUE_UNIT, max |-> VALUE_UNIT],
    [min |-> VALUE_UNIT, max |-> 3 * VALUE_UNIT],
    [min |-> 0, max |-> 0] }
\* the processors and the settings of their parameters
Unsourced ==
  {Processor(k) : k \in {"Processor", "Limiter", "Rectifier", "AM", "FM"}}
    \cup {[Processor("Amplifier") EXCEPT !.ratio = r] :
            r \in {RATIO_UNIT, 2 * RATIO_UNIT}}
    \cup {[Processor("Quantizer") EXCEPT !.steps = n] : n \in {0, 1, 4}}
    \cup {[Processor("SampleAndHold") EXCEPT !.frequency = f] :
            f \in {0, 3}}
    \cup {[Processor("SplitterOutput") EXCEPT !.splitter = b] :
            b \in BOOLEAN}
    \cup {[Processor("Mixer") EXCEPT !.ratio = r] :
            r \in {0, RATIO_UNIT \div 2, RATIO_UNIT}}
    \cup {[Processor("Delay") EXCEPT !.delay = Delay(n, InSamples)] :
            n \in {0, 2 * LOCATION_UNIT}}

InitProcessor ==
  /\ EngineConstructed(Csynth0, <<>>)
  /\ env = Envelope("ADSR", 0, 0)
  /\ envObs = EnvObs0
  /\ trig = [kind |-> "Rise", threshold |-> 0, last |-> 0]
  /\ trigObs = TrigObs0
  /\ GeneratorAtRest /\ SplitterAtRest /\ DelayAtRest
  /\ \E p \in Unsourced : proc = [unit |-> p, statics |-> Statics0]
  /\ procObs = ProcObs0
StepUnsourced == StepProcessor(0, 0)
ChangeProcessorRange ==
  \E r \in ProcessorRanges : SetProcessorRange(r.min, r.max)
NextProcessor == StepUnsourced \/ ChangeProcessorRange
SpecProcessor == InitProcessor /\ [][NextProcessor]_vars

\* C29: the step of a processor that has no source connected returns
\* exactly 0.0 and does not fail, whatever its parameters and its range.
C29_SilentWithoutSource ==
  [][procObs' # procObs
       => (~procObs'.failed /\ ~procObs'.nan /\ procObs'.out = 0)]_vars

(***************************************************************************)
(* Frequency modulation: an FM is stepped whose modulator is absent, a     *)
(* generator or another FM.                                                *)
(***************************************************************************)
\* a carrier: an oscillator with its frequency set, its range in Hz
Carrier(kind, f, hz) ==
  [Generator(kind, 0, 0, 0) EXCEPT !.frequency = f,
                                   !.minValue = -hz * VALUE_UNIT,
                                   !.maxValue = hz * VALUE_UNIT]
\* DC with both ends of its range at hz
Constant(hz) ==
  [Generator("DC", 0, 0, 0) EXCEPT !.minValue = hz * VALUE_UNIT,
                                   !.maxValue = hz * VALUE_UNIT]
Carriers == {Carrier(k, f, 1) : k \in {"Sine", "Saw"}, f \in {1, 2}}
\* modulators whose samples are whole frequency units
PlainModulators ==
  {NoGenerator, Constant(PHASE_UNIT), Carrier("Pulse", 2, PHASE_UNIT)}
Modulators ==
  PlainModulators
    \cup {FM(Carrier("Pulse", f, PHASE_UNIT), m) :
            f \in {1, 3}, m \in {NoGenerator, Constant(PHASE_UNIT)}}

InitFM ==
  /\ EngineConstructed(Csynth0, <<>>)
  /\ env = Envelope("ADSR", 0, 0)
  /\ envObs = EnvObs0
  /\ trig = [kind |-> "Rise", threshold |-> 0, last |-> 0]
  /\ trigObs = TrigObs0
  /\ GeneratorAtRest /\ SplitterAtRest /\ DelayAtRest
  /\ \E c \in Carriers, m \in Modulators :
       proc = [unit |-> FM(c, m), statics |-> Statics0]
  /\ procObs = ProcObs0
StepFM == StepProcessor(0, 0)
NextFM == StepFM
SpecFM == InitFM /\ [][NextFM]_vars

\* C30: a call of FM::step leaves the carrier's frequency as it was before
\* the call, whatever the modulator is.
C30_CarrierFrequencyKept ==
  [][procObs' # procObs
       => proc'.unit.carrier.frequency = proc.unit.carrier.frequency]_vars

\* ---------------------------------------------------------------------
\* A Rectifier on a connected source (signals.h, Rectifier::test).
\* ---------------------------------------------------------------------
RectifierRanges ==
  { [min |-> 0, max |-> 1600],
    [min |-> -VALUE_UNIT, max |-> VALUE_UNIT],
    [min |-> 1000, max |-> 1500] }
RectifierInputs ==
  {-7000, -5000, -2000, -1200, -1, 0, 800, 1200, 1600, 1601, 2400, 3300,
   5000, 7000}
InitRectifier ==
  /\ EngineConstructed(Csynth0, <<>>)
  /\ env = Envelope("ADSR", 0, 0)
  /\ envObs = EnvObs0
  /\ trig = [kind |-> "Rise", threshold |-> 0, last |-> 0]
  /\ trigObs = TrigObs0
  /\ GeneratorAtRest /\ SplitterAtRest /\ DelayAtRest
  /\ \E r \in RectifierRanges :
       proc = [unit |-> setRange([Processor("Rectifier") EXCEPT
                                    !.source = Source(-VALUE_UNIT,
                                                      VALUE_UNIT)],
                                 r.min, r.max),
               statics |-> Statics0]
  /\ procObs = ProcObs0
StepRectifier == \E s \in RectifierInputs : StepProcessor(s, 0)
ChangeRectifierRange ==
  \E r \in RectifierRanges : SetProcessorRange(r.min, r.max)
NextRectifier == StepRectifier \/ ChangeRectifierRange
SpecRectifier == InitRectifier /\ [][NextRectifier]_vars

\* the sample mirrored about the bound it violates until it lies inside
RECURSIVE Mirror(_, _, _)
Mirror(lo, hi, s) ==
  IF s < lo THEN Mirror(lo, hi, 2 * lo - s)
  ELSE IF s > hi THEN Mirror(lo, hi, 2 * hi - s)
  ELSE s

SlewSourceRanges ==
  { [min |-> -VALUE_UNIT, max |-> VALUE_UNIT],
    [min |-> 0, max |-> VALUE_UNIT],
    [min |-> 0, max |-> 0] }
\* riseTime and fallTime, in step times
SlewTimes == {-1, 0, 2, 4}
SlewTargets == {-VALUE_UNIT, -(VALUE_UNIT \div 2), 0, VALUE_UNIT \div 4,
                VALUE_UNIT}
InitSlewRateLimiter ==
  /\ EngineConstructed(Csynth0, <<>>)
  /\ env = Envelope("ADSR", 0, 0)
  /\ envObs = EnvObs0
  /\ trig = [kind |-> "Rise", threshold |-> 0, last |-> 0]
  /\ trigObs = TrigObs0
  /\ GeneratorAtRest /\ SplitterAtRest /\ DelayAtRest
  /\ \E r \in SlewSourceRanges, rt \in SlewTimes, ft \in SlewTimes :
       proc = [unit |-> [Processor("SlewRateLimiter") EXCEPT
                           !.source = Source(r.min, r.max),
                           !.riseTime = rt, !.fallTime = ft],
               statics |-> Statics0]
  /\ procObs = ProcObs0
StepSlewRateLimiter == \E s \in SlewTargets : StepProcessor(s, 0)
NextSlewRateLimiter == StepSlewRateLimiter
SpecSlewRateLimiter == InitSlewRateLimiter /\ [][NextSlewRateLimiter]_vars

\* the range of the connected source
SlewSourceRange == proc.unit.source.maxValue - proc.unit.source.minValue

\* C32: a step of a SlewRateLimiter raises the output by at most
\* sourceRange x STEP_TIME / riseTime when riseTime > 0 and lowers it by at
\* most sourceRange x STEP_TIME / fallTime when fallTime > 0; in a direction
\* whose time is <= 0 the output is the target, and the output never passes
\* the target
C32_SlewLimited ==
  [][procObs'.count > procObs.count =>
       LET old == proc.unit.value
           new == procObs'.out
           target == procObs'.in
       IN  /\ new = proc'.unit.value
           /\ proc.unit.riseTime > 0
                => new - old <= Quot(SlewSourceRange, proc.unit.riseTime)
           /\ proc.unit.fallTime > 0
                => old - new <= Quot(SlewSourceRange, proc.unit.fallTime)
           /\ target > old /\ ~(proc.unit.riseTime > 0) => new = target
           /\ target < old /\ ~(proc.unit.fallTime > 0) => new = target
           /\ target >= old => old <= new /\ new <= target
           /\ target <= old => target <= new /\ new <= old]_vars
\* a limiter with a fall time twice its rise time has risen at its limit and
\* is now falling at its other limit, short of the target
C32_Witness ==
  /\ procObs.stepped
  /\ proc.unit.kind = "SlewRateLimiter"
  /\ proc.unit.riseTime = 2 /\ proc.unit.fallTime = 4
  /\ SlewSourceRange = 2 * VALUE_UNIT
  /\ procObs.count >= 3
  /\ procObs.in = -VALUE_UNIT
  /\ procObs.out = VALUE_UNIT \div 2

\* ---------------------------------------------------------------------
\* A Mixer of generators and of Mixers (signals.h, Mixer::test).
\* ---------------------------------------------------------------------
\* Mixer(s1, s2), with the constructor's ratio of 0.5
Mixer(s1, s2) ==
  [Processor("Mixer") EXCEPT !.source = s1, !.source2 = s2,
                             !.ratio = RATIO_UNIT \div 2]
\* a DC generator with both ends of its range at v
Level(v) ==
  [Generator("DC", 0, 0, 0) EXCEPT !.minValue = v, !.maxValue = v]
MixerLeaves ==
  {NoGenerator, Level(VALUE_UNIT), Source(-VALUE_UNIT, VALUE_UNIT)}
MixerRatios == {0, RATIO_UNIT \div 2, RATIO_UNIT}
InnerMixers ==
  {Mixer(a, b) : a \in MixerLeaves \ {NoGenerator},
                 b \in MixerLeaves \ {NoGenerator}}
    \cup {[Mixer(Level(VALUE_UNIT), Source(-VALUE_UNIT, VALUE_UNIT))
             EXCEPT !.ratio = RATIO_UNIT]}
MixerSources == MixerLeaves \cup InnerMixers
MixerInputs == {VALUE_UNIT \div 2, -VALUE_UNIT}
InitMixer ==
  /\ EngineConstructed(Csynth0, <<>>)
  /\ env = Envelope("ADSR", 0, 0)
  /\ envObs = EnvObs0
  /\ trig = [kind |-> "Rise", threshold |-> 0, last |-> 0]
  /\ trigObs = TrigObs0
  /\ GeneratorAtRest /\ SplitterAtRest /\ DelayAtRest
  /\ \E a \in MixerSources, b \in MixerSources :
       proc = [unit |-> Mixer(a, b), statics |-> Statics0]
  /\ procObs = ProcObs0
StepMixer ==
  \E s \in MixerInputs, s2 \in MixerInputs : StepProcessor(s, s2)
\* mix.ratio = r
SetMixerRatio ==
  /\ \E r \in MixerRatios : proc' = [proc EXCEPT !.unit.ratio = r]
  /\ UNCHANGED procObs
  /\ UNCHANGED <<engineVars, envVars, genVars, splitVars, delayVars>>
NextMixer == StepMixer \/ SetMixerRatio
SpecMixer == InitMixer /\ [][NextMixer]_vars

\* the sample a source is to give when its counted sources give s: 0 for no
\* source, the level of a DC, and for a Mixer
\* source x (1 - ratio) + source2 x ratio
RECURSIVE Mixed(_, _, _)
Mixed(g, s, s2) ==
  IF g.kind = "NULL" THEN 0
  ELSE IF g.kind = "Source" THEN s
  ELSE IF g.kind = "Mixer"
  THEN Quot(Mixed(g.source, s, s) * (RATIO_UNIT - g.ratio), RATIO_UNIT)
         + Quot(Mixed(g.source2, s2, s2) * g.ratio, RATIO_UNIT)
  ELSE FloorDiv(g.minValue + g.maxValue, 2)
\* every counted source below g was stepped exactly once more
RECURSIVE SteppedOnce(_, _)
SteppedOnce(before, after) ==
  IF before.kind = "Source" THEN after.steps = before.steps + 1
  ELSE IF before.kind = "Mixer"
  THEN SteppedOnce(before.source, after.source)
         /\ SteppedOnce(before.source2, after.source2)
  ELSE TRUE
\* a source of the mixer is itself a Mixer
MixerOfMixers ==
  proc.unit.source.kind = "Mixer" \/ proc.unit.source2.kind = "Mixer"

\* C33: a step of a Mixer returns source x (1 - ratio) + source2 x ratio,
\* with 0 for a source that is not connected, and steps each source exactly
\* once, whatever its sources are (Mixers included)
C33_MixerMixes ==
  [][procObs'.count > procObs.count =>
       /\ ~procObs'.failed
       /\ procObs'.out = Mixed(proc.unit, procObs'.in, procObs'.in2)
       /\ SteppedOnce(proc.unit, proc'.unit)]_vars

\* ---------------------------------------------------------------------
\* A SampleAndHold on a connected source (signals.h, SampleAndHold::test).
\* ---------------------------------------------------------------------
\* sampling frequencies with a whole period of 8, 4, 2 and 1 steps, and the
\* constructor's frequency 0
HoldFrequencies ==
  {0, PHASE_UNIT \div 8, PHASE_UNIT \div 4, PHASE_UNIT \div 2, PHASE_UNIT}
HoldInputs == {-VALUE_UNIT, VALUE_UNIT \div 2, VALUE_UNIT}
InitSampleAndHold ==
  /\ EngineConstructed(Csynth0, <<>>)
  /\ env = Envelope("ADSR", 0, 0)
  /\ envObs = EnvObs0
  /\ trig = [kind |-> "Rise", threshold |-> 0, last |-> 0]
  /\ trigObs = TrigObs0
  /\ GeneratorAtRest /\ SplitterAtRest /\ DelayAtRest
  /\ \E f \in HoldFrequencies :
       proc = [unit |-> [Processor("SampleAndHold") EXCEPT
                           !.source = Source(-VALUE_UNIT, VALUE_UNIT),
                           !.frequency = f],
               statics |-> Statics0]
  /\ procObs = ProcObs0
StepSampleAndHold == \E s \in HoldInputs : StepProcessor(s, 0)
NextSampleAndHold == StepSampleAndHold
SpecSampleAndHold == InitSampleAndHold /\ [][NextSampleAndHold]_vars

\* the period of the sampling in steps
HoldPeriod == PHASE_UNIT \div proc.unit.frequency

\* C34: a SampleAndHold of frequency 0 returns 0.0 on every step, whatever
\* its source gives; one of frequency f > 0 with a whole period of k steps
\* returns the input on the steps 1, k + 1, 2k + 1, ... and the value it
\* returned before on the other steps; the source is stepped once per call
C34_SamplesAtFrequency ==
  [][procObs'.count > procObs.count =>
       /\ proc'.unit.source.steps = proc.unit.source.steps + 1
       /\ proc.unit.frequency = 0 => procObs'.out = 0
       /\ proc.unit.frequency > 0 =>
            procObs'.out = IF procObs.count % HoldPeriod = 0
                           THEN procObs'.in
                           ELSE procObs.out]_vars

\* ---------------------------------------------------------------------
\* Saving the state of an engine and restoring it into another one.
\* ---------------------------------------------------------------------
\* the tuple save() forges: in the order of the slots, the index and the
\* value of every control whose value is not 0.0
ForgeTuple(cv) ==
  LET set == {i \in Controls : cv[i] # 0}
      nth(k) == CHOOSE i \in set : Cardinality({j \in set : j < i}) = k - 1
  IN  [k \in 1 .. (2 * Cardinality(set)) |->
         IF k % 2 = 1 THEN <<"int", nth((k + 1) \div 2)>>
         ELSE <<"float", cv[nth(k \div 2)]>>]

\* save() on instance s and heap hp: the properties it stores
save(s, hp) ==
  [has |-> {"autobuild", "polyphony", "bendrange"}
             \cup (IF s.patch # NULL THEN {"codepath"} ELSE {})
             \cup (IF ForgeTuple(s.cv) # <<>> THEN {"cv"} ELSE {}),
   codepath |-> IF s.patch # NULL THEN hp[s.patch].code_path ELSE 0,
   autobuild |-> s.autobuild,
   polyphony |-> s.polyphony,
   bendrange |-> s.bendrange,
   cv |-> ForgeTuple(s.cv)]

\* the events that set what a snapshot holds
StateEvents ==
  { Event(0, "controller", c, v, <<>>) :
      c \in {0, CV_COUNT - 1}, v \in {0, 64} }
  \cup { Event(0, "polyphony", 3, 0, <<>>),
         Event(0, "bendrange", 12, 0, <<>>) }
\* the engines whose state is saved: new ones that were sent one of the
\* events, or a controller event and then another event
SavedEngines ==
  {Csynth0}
    \cup {ApplyEvent(Csynth0, a) : a \in StateEvents}
    \cup {ApplyEvent(ApplyEvent(Csynth0,
                                Event(0, "controller", 0, 64, <<>>)), b) :
            b \in StateEvents}
RunBeginState == RunBegin(1)
RunEventState ==
  \E ev \in StateEvents : nevents < MaxEvents /\ RunEvent(ev)
\* restore() with what save() stored for an engine
RestoreSnapshot == \E e \in SavedEngines : restore(save(e, <<>>))
NextState ==
  \/ RunBeginState
  \/ RunEventState
  \/ RunEnd
  \/ RestoreSnapshot
SpecState == Init /\ [][NextState]_vars

\* C35: restoring the snapshot saved from an engine leaves the restoring
\* engine, whatever it held before, with the polyphony, the bend range and
\* all 120 control values of the saved engine
C35_SnapshotRoundTrip ==
  [][\A e \in SavedEngines :
       restore(save(e, <<>>)) =>
         /\ self'.polyphony = e.polyphony
         /\ self'.bendrange = e.bendrange
         /\ \A i \in Controls : self'.cv[i] = e.cv[i]]_vars

\* ---------------------------------------------------------------------
\* Build requests, the worker and the installation of units, without
\* restore and cleanup.
\* ---------------------------------------------------------------------
NextBuild ==
  \/ RunBeginPatch
  \/ RunEventPatch
  \/ RunEnd
  \/ work
  \/ work_response
SpecBuild == Init /\ [][NextBuild]_vars

\* no build request and no response is waiting
Quiescent == pc = "idle" /\ PendingBuilds(workQ) = 0 /\ respQ = <<>>
\* the units that built and loaded; the worker allocates in the order of
\* the requests, so a later request has the higher pointer
Successful == {k \in DOMAIN heap : heap[k].built /\ heap[k].loaded}
\* unit k was handed to the worker for disposal
HandedOver(k) ==
  heap[k].freed \/ \E i \in DOMAIN workQ : workQ[i] = DisposeMsg(k)

\* C36: every unit that built and loaded is installed, the units are
\* installed in the order of their requests, and when no request and no
\* response is waiting the installed unit is that of the most recent request
\* that built and loaded, every unit installed before it having been handed
\* to the worker for disposal
C36_BuildsInstalledInOrder ==
  [][/\ (self'.patch # self.patch /\ self.patch # NULL)
          => self'.patch > self.patch
     /\ Quiescent' =>
          /\ \A k \in Successful' : heap'[k].installed_in # "none"
          /\ Successful' # {} =>
               self'.patch = CHOOSE k \in Successful' :
                               \A j \in Successful' : j <= k
          /\ \A k \in DOMAIN heap' :
               (heap'[k].installed_in # "none" /\ k # self'.patch)
                 => HandedOver(k)']_vars

\* ---------------------------------------------------------------------
\* The life of the units under build requests, responses, dispose messages
\* and restore, with a worker that keeps serving its queue.
\* ---------------------------------------------------------------------
NextLifecycle ==
  \/ RunBeginPatch
  \/ RunEventPatch
  \/ RunEnd
  \/ work
  \/ work_response
  \/ RestoreSaved
SpecLifecycle == Init /\ [][NextLifecycle]_vars /\ WF_vars(work)

\* unit k was installed and another unit has taken its place
Replaced(k) ==
  k \in DOMAIN heap /\ heap[k].installed_in # "none" /\ self.patch # k
\* dispose_patch was run on unit k
IsDisposed(k) == k \in DOMAIN heap /\ heap[k].freed

C38_TapIndicesInBuffer ==
  delayObs.op \in {"tapIn", "tapOut"} =>
    \A i \in delayObs.indices : InBuffer(delay, i)

\* ---------------------------------------------------------------------
\* The list of changed controls under controller events, patch:Get,
\* restore and run.
\* ---------------------------------------------------------------------
NotifyEvents ==
  { Event(0, "controller", c, 64, <<>>) :
      c \in {0, CV_COUNT - 1, CV_COUNT} }
  \cup { Event(0, "get", 0, 0, <<>>) }
\* restore() with the state of an engine that holds one non-zero control
RestoreControls ==
  restore(save(ApplyEvent(Csynth0, Event(0, "controller", 1, 64, <<>>)),
               <<>>))
RunBeginNotify == RunBegin(1)
RunEventNotify ==
  \E ev \in NotifyEvents : nevents < MaxEvents /\ RunEvent(ev)
NextNotify ==
  \/ RunBeginNotify
  \/ RunEventNotify
  \/ RunEnd
  \/ RestoreControls
SpecNotify == Init /\ [][NextNotify]_vars

\* C39: the first set_cv_count entries of set_cv_indices are pairwise
\* distinct indices of controls, set_cv_count is at most 120 and nothing
\* was written past the end of set_cv_indices
C39_ChangedControlsDistinct ==
  /\ self.set_cv_count >= 0
  /\ self.set_cv_count <= CV_COUNT
  /\ DOMAIN self.set_cv_indices = Controls
  /\ \A i \in 0 .. (self.set_cv_count - 1) :
       self.set_cv_indices[i] \in Controls
  /\ Cardinality({self.set_cv_indices[i] :
                    i \in 0 .. (self.set_cv_count - 1)}) = self.set_cv_count
\* a controller event arrived while all 120 controls were listed
C39_Witness ==
  /\ pc = "run"
  /\ lastEvent.kind = "controller"
  /\ lastEvent.a \in Controls
  /\ self.cv[lastEvent.a] = lastEvent.b
  /\ self.set_cv_count = CV_COUNT

\* C40: whatever the frame offsets of the events, run writes only the
\* positions 0 .. N-1 of the out port, and every range it passes to
\* write_samples ends at or after its start
C40_WritesInsideBlock ==
  [][/\ \A k \in DOMAIN outLog' : outLog'[k].pos < sample_count'
     /\ nevents' = nevents + 1 => start_sample' >= start_sample
     /\ (pc = "run" /\ pc' = "idle") => sample_count >= start_sample]_vars

====
